---- MODULE Spec2Model ----
(***************************************************************************)
(* The interview-progress graph of Narrative-Planner: ThemeNode, EventNode, *)
(* ThemeLoader and GraphManager (src/src/core, narrative_navigator/core).   *)
(* One GraphManager instance, one checkpoint directory (one session id).    *)
(***************************************************************************)
EXTENDS Integers, Sequences, FiniteSets, TLC

VARIABLES
    use_networkx,   \* GraphManager.use_networkx (fixed at construction)
    themes_file,    \* the catalog the ThemeLoader reads (fixed input)
    theme_nodes,    \* GraphManager.theme_nodes: theme id -> ThemeNode
    event_nodes,    \* GraphManager.event_nodes: event id -> EventNode
    graph,          \* GraphManager.graph: [nodes, edges]
    checkpoint,     \* the three files of the session's checkpoint directory
    calls_left,     \* how many more calls the caller makes
    add_calls,      \* history: successful add_event_node calls per theme id
                    \* since construction or the last reset
    lastOp,         \* the last call made and what it returned
    twin            \* a second GraphManager over the same catalog with the other
                    \* backing, for a caller that makes each call on both:
                    \* [ret, theme_nodes, event_nodes, graph], ret being what
                    \* its last call returned

vars == <<use_networkx, themes_file, theme_nodes, event_nodes, graph, checkpoint, calls_left, add_calls, lastOp, twin>>

-----------------------------------------------------------------------------
(* Bounds of the model *)

\* number of calls made on the GraphManager and its nodes in one behaviour
MaxCalls == 3
\* number of calls in a behaviour that only adds events, marks themes and
\* updates event depths
MaxAddCalls == 6
\* calls made by a caller that drives one theme's depth to the cap and past it
MaxDepthCalls == 7
\* calls made by a caller that asks a theme for its seed questions, two more
\* than the longest list of questions
MaxSeedCalls == 4

(* Program constants *)

\* ThemeNode.increment_depth: min(exploration_depth + 1, 5)
MaxThemeDepth == 5
\* GraphManager.update_event_depth: min(new_depth, 5)
MaxEventDepth == 5

\* Domain values
DomainValues ==
    {"life_chapters", "key_scenes", "future_scripts", "challenges", "personal_ideology",
     "context_management"}

\* NodeStatus values
PENDING == "pending"
MENTIONED == "mentioned"
EXHAUSTED == "exhausted"
NodeStatusValues == {PENDING, MENTIONED, EXHAUSTED}

\* Python's None where a string or a timestamp is optional
None == "None"
NoTime == 0

-----------------------------------------------------------------------------
(* The theme catalog (input of ThemeLoader): the theme definitions in file  *)
(* order. Two catalogs over the same ids; in the second, T2 depends on an   *)
(* id that is no theme of the catalog.                                      *)

ThemeDef(id, prio, deps, slots) ==
    [theme_id |-> id, domain |-> "key_scenes", priority |-> prio,
     depends_on |-> deps, slots |-> slots, seed_questions |-> <<"q1", "q2">>]

CatalogA ==
    << ThemeDef("T1", 2, <<>>, <<>>),
       ThemeDef("T2", 2, <<>>, <<"s1", "s2">>),
       ThemeDef("T3", 1, <<"T1">>, <<>>) >>

CatalogB ==
    << ThemeDef("T1", 2, <<>>, <<>>),
       ThemeDef("T2", 2, <<"TX">>, <<"s1", "s2">>),
       ThemeDef("T3", 1, <<"T1">>, <<>>) >>

\* a catalog in which the theme that waits for T1 shares its priority with a
\* theme that comes before it
CatalogC ==
    << ThemeDef("T1", 1, <<>>, <<>>),
       ThemeDef("T2", 2, <<>>, <<"s1", "s2">>),
       ThemeDef("T3", 2, <<"T1">>, <<>>) >>

\* a catalog over other ids: T1 and T4, without T2 and T3
CatalogD ==
    << ThemeDef("T1", 2, <<>>, <<"s1">>),
       ThemeDef("T4", 1, <<>>, <<>>) >>

\* a catalog without themes
CatalogE == <<>>

\* a catalog whose themes have no, one and two seed questions
CatalogF ==
    << [ThemeDef("T1", 2, <<>>, <<>>) EXCEPT !.seed_questions = <<>>],
       [ThemeDef("T2", 2, <<>>, <<"s1", "s2">>) EXCEPT !.seed_questions = <<"q1">>],
       ThemeDef("T3", 1, <<"T1">>, <<>>) >>

\* a catalog one of whose themes is listed under a domain that is no Domain
CatalogG ==
    << ThemeDef("T1", 2, <<>>, <<"s1">>),
       [ThemeDef("T2", 2, <<>>, <<"s1", "s2">>) EXCEPT !.domain = "hobbies"],
       ThemeDef("T3", 1, <<"T1">>, <<>>) >>

\* a catalog in which two themes wait for each other
CatalogH ==
    << ThemeDef("T1", 2, <<"T2">>, <<>>),
       ThemeDef("T2", 2, <<"T1">>, <<"s1", "s2">>),
       ThemeDef("T3", 1, <<>>, <<>>) >>

CatalogFiles == {"A", "B"}

ThemeDefinitions(file) ==
    CASE file = "A" -> CatalogA
      [] file = "B" -> CatalogB
      [] file = "C" -> CatalogC
      [] file = "D" -> CatalogD
      [] file = "E" -> CatalogE
      [] file = "F" -> CatalogF
      [] file = "G" -> CatalogG
      [] file = "H" -> CatalogH

\* ids used as inputs
ThemeIds == {"T1", "T2", "T3"}
UnknownThemeId == "T9"
EventIds == {"e1", "e2"}
UnknownEventId == "e9"

SeqToSet(s) == {s[i] : i \in 1..Len(s)}

-----------------------------------------------------------------------------
(* ThemeNode *)

\* _create_theme_node giving the theme its slots already filled
CreateThemeNodeSlotsFilled(theme_def) ==
    [theme_id |-> theme_def.theme_id,
     domain |-> theme_def.domain,
     seed_questions |-> theme_def.seed_questions,
     current_question_index |-> 0,
     status |-> PENDING,
     exploration_depth |-> 0,
     slots_filled |-> [s \in SeqToSet(theme_def.slots) |-> TRUE],
     extracted_events |-> <<>>,
     priority |-> theme_def.priority,
     depends_on |-> theme_def.depends_on,
     first_mentioned_at |-> NoTime,
     exhausted_at |-> NoTime]

\* ThemeLoader._create_theme_node
CreateThemeNode(theme_def) ==
    [theme_id |-> theme_def.theme_id,
     domain |-> theme_def.domain,
     seed_questions |-> theme_def.seed_questions,
     current_question_index |-> 0,
     status |-> PENDING,
     exploration_depth |-> 0,
     slots_filled |-> [s \in SeqToSet(theme_def.slots) |-> FALSE],
     extracted_events |-> <<>>,
     priority |-> theme_def.priority,
     depends_on |-> theme_def.depends_on,
     first_mentioned_at |-> NoTime,
     exhausted_at |-> NoTime]

\* ThemeLoader.load, lines 73-78: the definitions listed under a domain that
\* Domain(domain_id) accepts; the others are skipped
ResolvedDefinitions(file) ==
    SelectSeq(ThemeDefinitions(file), LAMBDA theme_def : theme_def.domain \in DomainValues)

\* ThemeLoader.load: one ThemeNode per definition, keyed by theme id
LoadThemes(file) ==
    LET defs == ResolvedDefinitions(file)
    IN  [id \in {defs[i].theme_id : i \in 1..Len(defs)} |->
            CreateThemeNode(defs[CHOOSE i \in 1..Len(defs) : defs[i].theme_id = id])]

\* key order of the theme_nodes dict: the order load() inserted the ids in
ThemeKeys(file) ==
    LET defs == ResolvedDefinitions(file)
    IN  [i \in 1..Len(defs) |-> defs[i].theme_id]

\* datetime.now() when a timestamp field is written: a reading later than the
\* one the field held (NoTime when it held none)
Now(held) == held + 1

\* mark_mentioned that keeps the status of a theme that is not PENDING but
\* writes first_mentioned_at every time
MarkMentionedRestamping(t) ==
    [t EXCEPT !.status = IF t.status = PENDING THEN MENTIONED ELSE @,
              !.first_mentioned_at = Now(@)]

\* mark_mentioned without its check of the status
MarkMentionedUnguarded(t) ==
    [t EXCEPT !.status = MENTIONED, !.first_mentioned_at = Now(@)]

\* ThemeNode.mark_mentioned
MarkMentioned(t) ==
    IF t.status = PENDING
    THEN [t EXCEPT !.status = MENTIONED, !.first_mentioned_at = Now(@)]
    ELSE t

\* mark_exhausted that acts on a MENTIONED theme only
MarkExhaustedFromMentioned(t) ==
    IF t.status = MENTIONED
    THEN [t EXCEPT !.status = EXHAUSTED, !.exhausted_at = Now(@)]
    ELSE t

\* mark_exhausted that also sets the depth to the cap
MarkExhaustedFullDepth(t) ==
    [t EXCEPT !.status = EXHAUSTED, !.exhausted_at = Now(@),
              !.exploration_depth = MaxThemeDepth]

\* mark_exhausted that writes the timestamp and leaves the status
MarkExhaustedKeepingStatus(t) ==
    [t EXCEPT !.exhausted_at = Now(@)]

\* ThemeNode.mark_exhausted
MarkExhausted(t) ==
    [t EXCEPT !.status = EXHAUSTED, !.exhausted_at = Now(@)]

\* a ratio num/den as the pair <<num, den>>, den > 0
DepthRatio(depth) ==
    IF depth >= MaxThemeDepth THEN <<1, 1>> ELSE <<depth, MaxThemeDepth>>

RatioLess(a, b) == a[1] * b[2] < b[1] * a[2]
RatioEq(a, b) == a[1] * b[2] = b[1] * a[2]

\* get_completion_ratio that never falls back to the depth once slots exist
GetCompletionRatioNoFallback(t) ==
    LET filled_count == Cardinality({s \in DOMAIN t.slots_filled : t.slots_filled[s]})
        total_count == Cardinality(DOMAIN t.slots_filled)
    IN  IF total_count = 0 THEN DepthRatio(t.exploration_depth)
        ELSE <<filled_count, total_count>>

\* get_completion_ratio taking the larger of the slot ratio and the depth ratio
GetCompletionRatioNeverBelowDepth(t) ==
    LET filled_count == Cardinality({s \in DOMAIN t.slots_filled : t.slots_filled[s]})
        total_count == Cardinality(DOMAIN t.slots_filled)
        by_depth == DepthRatio(t.exploration_depth)
    IN  IF total_count = 0 THEN by_depth
        ELSE IF filled_count * by_depth[2] > by_depth[1] * total_count
        THEN <<filled_count, total_count>>
        ELSE by_depth

\* ThemeNode.get_completion_ratio
GetCompletionRatio(t) ==
    LET filled_count == Cardinality({s \in DOMAIN t.slots_filled : t.slots_filled[s]})
        total_count == Cardinality(DOMAIN t.slots_filled)
    IN  IF total_count = 0 THEN DepthRatio(t.exploration_depth)
        ELSE IF filled_count > 0 THEN <<filled_count, total_count>>
        ELSE DepthRatio(t.exploration_depth)

\* is_ready_to_explore taking a dependency that is no theme as satisfied
IsReadyIgnoringUnknown(t, graph_state) ==
    \A i \in 1..Len(t.depends_on) :
        t.depends_on[i] \in DOMAIN graph_state
            => graph_state[t.depends_on[i]].status = EXHAUSTED

\* ThemeNode.is_ready_to_explore(graph_state) with a graph_state supplied
IsReadyToExplore(t, graph_state) ==
    IF Len(t.depends_on) = 0 THEN TRUE
    ELSE \A i \in 1..Len(t.depends_on) :
            /\ t.depends_on[i] \in DOMAIN graph_state
            /\ graph_state[t.depends_on[i]].status = EXHAUSTED

\* increment_depth starting again from 0 past the cap
IncrementDepthWrapping(t) ==
    [t EXCEPT !.exploration_depth = (t.exploration_depth + 1) % (MaxThemeDepth + 1)]

\* increment_depth without the cap
IncrementDepthUncapped(t) ==
    [t EXCEPT !.exploration_depth = t.exploration_depth + 1]

\* ThemeNode.increment_depth
IncrementDepth(t) ==
    [t EXCEPT !.exploration_depth =
        IF t.exploration_depth + 1 < MaxThemeDepth THEN t.exploration_depth + 1
        ELSE MaxThemeDepth]

\* ThemeNode.update_slot
ThemeUpdateSlot(t, slot_name, filled) ==
    [t EXCEPT !.slots_filled =
        [s \in DOMAIN t.slots_filled \cup {slot_name} |->
            IF s = slot_name THEN filled ELSE t.slots_filled[s]]]

\* add_extracted_event listing an event id again that is already listed
AddExtractedEventAgain(t, event_id) ==
    [t EXCEPT !.extracted_events = Append(t.extracted_events, event_id)]

\* ThemeNode.add_extracted_event
AddExtractedEvent(t, event_id) ==
    IF event_id \in SeqToSet(t.extracted_events) THEN t
    ELSE [t EXCEPT !.extracted_events = Append(t.extracted_events, event_id)]

\* get_next_seed_question going back to the first question past the last one
GetNextSeedQuestionWrapping(t) ==
    IF 0 <= t.current_question_index /\ t.current_question_index < Len(t.seed_questions)
    THEN [ret |-> t.seed_questions[t.current_question_index + 1],
          node |-> [t EXCEPT !.current_question_index = @ + 1]]
    ELSE [ret |-> None, node |-> [t EXCEPT !.current_question_index = 0]]

\* ThemeNode.get_next_seed_question: [ret, node], the question returned (None
\* when there is none) and the node after the call; Python lists count from 0
GetNextSeedQuestion(t) ==
    IF 0 <= t.current_question_index /\ t.current_question_index < Len(t.seed_questions)
    THEN [ret |-> t.seed_questions[t.current_question_index + 1],
          node |-> [t EXCEPT !.current_question_index = @ + 1]]
    ELSE [ret |-> None, node |-> t]

\* ThemeNode.has_more_questions
HasMoreQuestions(t) == t.current_question_index < Len(t.seed_questions)

\* ThemeNode.to_dict (title, description and created_at carry no behaviour and
\* are left out; a timestamp stands for its isoformat string)
ThemeToDict(t) ==
    [theme_id |-> t.theme_id,
     domain |-> t.domain,
     seed_questions |-> t.seed_questions,
     status |-> t.status,
     exploration_depth |-> t.exploration_depth,
     slots_filled |-> t.slots_filled,
     extracted_events_count |-> Len(t.extracted_events),
     priority |-> t.priority,
     depends_on |-> t.depends_on,
     completion_ratio |-> GetCompletionRatio(t),
     first_mentioned_at |-> t.first_mentioned_at,
     exhausted_at |-> t.exhausted_at]

\* ThemeNode.from_dict: the constructor over the fields it reads from the
\* record, every other field at its default (current_question_index is not
\* read); extracted_events is taken from the record when it holds a non-empty
\* list under that key
ThemeFromDict(data) ==
    [theme_id |-> data.theme_id,
     domain |-> data.domain,
     seed_questions |-> data.seed_questions,
     current_question_index |-> 0,
     status |-> data.status,
     exploration_depth |-> data.exploration_depth,
     slots_filled |-> data.slots_filled,
     extracted_events |-> IF "extracted_events" \in DOMAIN data
                          THEN data.extracted_events ELSE <<>>,
     priority |-> data.priority,
     depends_on |-> data.depends_on,
     first_mentioned_at |-> data.first_mentioned_at,
     exhausted_at |-> data.exhausted_at]

-----------------------------------------------------------------------------
(* EventNode *)

\* the seven predefined slots of EventNode.__post_init__
DefaultEventSlots ==
    [s \in {"time", "location", "people", "cause", "result", "emotion", "reflection"} |-> None]

\* EventNode.__post_init__: an empty slot map is replaced by the default one
PostInit(e) ==
    IF DOMAIN e.slots = {} THEN [e EXCEPT !.slots = DefaultEventSlots] ELSE e

\* EventNode(event_id, theme_id, title, description): the constructor with
\* every other field at its default
NewEvent(event_id, theme_id) ==
    PostInit([event_id |-> event_id, theme_id |-> theme_id,
              slots |-> <<>>, depth_level |-> 0])

\* EventNode.get_slot_completion_ratio, as <<filled, total>>
GetSlotCompletionRatio(e) ==
    IF DOMAIN e.slots = {} THEN <<0, 1>>
    ELSE <<Cardinality({s \in DOMAIN e.slots : e.slots[s] \notin {None, ""}}),
           Cardinality(DOMAIN e.slots)>>

\* EventNode.is_exhausted: depth_level >= 4 or slot ratio >= 0.8
IsExhausted(e) ==
    LET r == GetSlotCompletionRatio(e)
    IN  e.depth_level >= 4 \/ r[1] * 10 >= 8 * r[2]

\* str(value) if value is not None else None, for the values the model passes
SlotText(value) ==
    IF value.kind = "none" THEN None
    ELSE IF value.kind = "int" THEN ToString(value.n)
    ELSE value.s

\* EventNode.update_slot: known and unknown slot names are both recorded
EventUpdateSlot(e, slot_name, value) ==
    [e EXCEPT !.slots =
        [s \in DOMAIN e.slots \cup {slot_name} |->
            IF s = slot_name THEN SlotText(value) ELSE e.slots[s]]]

\* EventNode.increment_depth
EventIncrementDepth(e) ==
    [e EXCEPT !.depth_level =
        IF e.depth_level + 1 < MaxEventDepth THEN e.depth_level + 1 ELSE MaxEventDepth]

\* EventNode.to_dict (title, description, people, scores and created_at carry
\* no behaviour and are left out)
EventToDict(e) ==
    [event_id |-> e.event_id,
     theme_id |-> e.theme_id,
     slots |-> e.slots,
     depth_level |-> e.depth_level,
     slot_completion_ratio |-> GetSlotCompletionRatio(e),
     is_exhausted |-> IsExhausted(e)]

\* EventNode.from_dict: the constructor, so __post_init__ runs
EventFromDict(data) ==
    PostInit([event_id |-> data.event_id, theme_id |-> data.theme_id,
              slots |-> data.slots, depth_level |-> data.depth_level])

-----------------------------------------------------------------------------
(* The graph store. nodes: id -> [node_type, status, data]; data holds the   *)
(* scalar fields of the node's to_dict() taken when the node was added.      *)
(* edges, networkx backing: a set of <<source, target, relation_type>>, one  *)
(* per (source, target); plain backing: source id -> list of target ids.     *)

\* the data record of a theme's graph node
ThemeNodeData(t) ==
    [status |-> t.status, exploration_depth |-> t.exploration_depth]

\* the data record of an event's graph node
EventNodeData(e) ==
    [theme_id |-> e.theme_id, depth_level |-> e.depth_level]

\* dict assignment d[k] = v
Put(d, k, v) == [x \in DOMAIN d \cup {k} |-> IF x = k THEN v ELSE d[x]]

\* nx.DiGraph.add_edge(u, v, relation_type=rel)
NxAddEdge(edges, u, v, rel) ==
    {e \in edges : ~(e[1] = u /\ e[2] = v)} \cup {<<u, v, rel>>}

\* graph["edges"][src].append(dst), creating the list when src has none
AdjAppend(adj, src, dst) ==
    IF src \in DOMAIN adj THEN [adj EXCEPT ![src] = Append(@, dst)]
    ELSE Put(adj, src, <<dst>>)

\* the (dependency id, theme id) pairs in the order _initialize_graph meets them
RECURSIVE DepPairs(_, _, _)
DepPairs(themes, keys, i) ==
    IF i > Len(keys) THEN <<>>
    ELSE [j \in 1..Len(themes[keys[i]].depends_on) |->
            <<themes[keys[i]].depends_on[j], keys[i]>>]
         \o DepPairs(themes, keys, i + 1)

RECURSIVE NxAddDependencies(_, _, _, _)
NxAddDependencies(edges, pairs, themes, i) ==
    IF i > Len(pairs) THEN edges
    ELSE NxAddDependencies(
            IF pairs[i][1] \in DOMAIN themes
            THEN NxAddEdge(edges, pairs[i][1], pairs[i][2], "dependency")
            ELSE edges,
            pairs, themes, i + 1)

RECURSIVE AdjAddDependencies(_, _, _)
AdjAddDependencies(adj, pairs, i) ==
    IF i > Len(pairs) THEN adj
    ELSE AdjAddDependencies(AdjAppend(adj, pairs[i][1], pairs[i][2]), pairs, i + 1)

ThemeGraphNode(t) ==
    [node_type |-> "theme", status |-> PENDING, data |-> ThemeNodeData(t)]

\* GraphManager.__init__: the empty graph of the chosen backing
EmptyGraph(nx) ==
    IF nx THEN [nodes |-> <<>>, edges |-> {}] ELSE [nodes |-> <<>>, edges |-> <<>>]

\* GraphManager._initialize_graph, after theme_nodes = theme_loader.load():
\* the networkx branch adds to self.graph, the plain branch starts from empty
\* "nodes" and "edges"
InitializeGraph(g, themes, keys, nx) ==
    IF nx
    THEN [nodes |-> [id \in DOMAIN g.nodes \cup DOMAIN themes |->
                        IF id \in DOMAIN themes THEN ThemeGraphNode(themes[id])
                        ELSE g.nodes[id]],
          edges |-> NxAddDependencies(g.edges, DepPairs(themes, keys, 1), themes, 1)]
    ELSE [nodes |-> [id \in DOMAIN themes |-> ThemeGraphNode(themes[id])],
          edges |-> AdjAddDependencies(<<>>, DepPairs(themes, keys, 1), 1)]

\* _update_node_status that leaves the status in the node's data record
UpdateNodeStatusNotInData(g, node_id, status) ==
    IF node_id \in DOMAIN g.nodes
    THEN [g EXCEPT !.nodes[node_id].status = status]
    ELSE g

\* GraphManager._update_node_status
UpdateNodeStatus(g, node_id, status) ==
    IF node_id \in DOMAIN g.nodes
    THEN [g EXCEPT !.nodes[node_id].status = status,
                   !.nodes[node_id].data.status = status]
    ELSE g

\* GraphManager.add_event_node, lines 131-154: the event's node and its
\* "contains" edge
GraphAddEvent(g, event, theme_id, nx) ==
    LET node == [node_type |-> "event", status |-> "active", data |-> EventNodeData(event)]
    IN  IF nx
        THEN [nodes |-> Put(g.nodes, event.event_id, node),
              edges |-> NxAddEdge(g.edges, theme_id, event.event_id, "contains")]
        ELSE [nodes |-> Put(g.nodes, event.event_id, node),
              edges |-> IF theme_id \in DOMAIN g.edges
                           /\ event.event_id \in SeqToSet(g.edges[theme_id])
                        THEN g.edges
                        ELSE AdjAppend(g.edges, theme_id, event.event_id)]

\* the theme's part of add_event_node without the increment of the depth
AddEventToThemeNoDepth(t, event_id) ==
    LET listed == AddExtractedEvent(t, event_id)
    IN  IF listed.status = PENDING THEN MarkMentioned(listed) ELSE listed

\* GraphManager.add_event_node, lines 157-164: what the call does to the theme
AddEventToTheme(t, event_id) ==
    LET counted == IncrementDepth(AddExtractedEvent(t, event_id))
    IN  IF counted.status = PENDING THEN MarkMentioned(counted) ELSE counted

\* the set of directed edges of the graph, whatever the backing
EdgePairs(g, nx) ==
    IF nx THEN {<<e[1], e[2]>> : e \in g.edges}
    ELSE UNION {{<<src, g.edges[src][i]>> : i \in 1..Len(g.edges[src])} : src \in DOMAIN g.edges}

-----------------------------------------------------------------------------
(* GraphManager: what each call returns and leaves in memory, as a record    *)
(* [ret, theme_nodes, event_nodes, graph]                                    *)

Result(ret, themes, events, g) ==
    [ret |-> ret, theme_nodes |-> themes, event_nodes |-> events, graph |-> g]

\* GraphManager.__init__ / _initialize_graph on a fresh instance
FreshGraph(file, nx) ==
    InitializeGraph(EmptyGraph(nx), LoadThemes(file), ThemeKeys(file), nx)

\* add_event_node recording the event before it checks the theme id
AddEventNodeRecordsFirst(themes, events, g, event, theme_id, nx) ==
    IF theme_id \notin DOMAIN themes
    THEN Result("False", themes, Put(events, event.event_id, event), g)
    ELSE LET withEvent == GraphAddEvent(g, event, theme_id, nx)
             counted == IncrementDepth(AddExtractedEvent(themes[theme_id], event.event_id))
         IN  Result("True",
                    [themes EXCEPT ![theme_id] = AddEventToTheme(@, event.event_id)],
                    Put(events, event.event_id, event),
                    IF counted.status = PENDING
                    THEN UpdateNodeStatus(withEvent, theme_id, MENTIONED)
                    ELSE withEvent)

\* GraphManager.add_event_node(event, theme_id)
AddEventNodeResult(themes, events, g, event, theme_id, nx) ==
    IF theme_id \notin DOMAIN themes
    THEN Result("False", themes, events, g)
    ELSE LET withEvent == GraphAddEvent(g, event, theme_id, nx)
             counted == IncrementDepth(AddExtractedEvent(themes[theme_id], event.event_id))
         IN  Result("True",
                    [themes EXCEPT ![theme_id] = AddEventToTheme(@, event.event_id)],
                    Put(events, event.event_id, event),
                    IF counted.status = PENDING
                    THEN UpdateNodeStatus(withEvent, theme_id, MENTIONED)
                    ELSE withEvent)

\* min(new_depth, 5)
ClampEventDepth(new_depth) ==
    IF new_depth < MaxEventDepth THEN new_depth ELSE MaxEventDepth

\* GraphManager.update_event_depth(event_id, new_depth)
UpdateEventDepthResult(themes, events, g, event_id, new_depth) ==
    IF event_id \notin DOMAIN events
    THEN Result("False", themes, events, g)
    ELSE Result("True", themes,
                [events EXCEPT ![event_id].depth_level = ClampEventDepth(new_depth)],
                IF event_id \in DOMAIN g.nodes
                THEN [g EXCEPT !.nodes[event_id].data.depth_level = ClampEventDepth(new_depth)]
                ELSE g)

\* GraphManager.mark_theme_exhausted(theme_id)
MarkThemeExhaustedResult(themes, events, g, theme_id) ==
    IF theme_id \notin DOMAIN themes
    THEN Result("False", themes, events, g)
    ELSE Result("True", [themes EXCEPT ![theme_id] = MarkExhausted(@)], events,
                UpdateNodeStatus(g, theme_id, EXHAUSTED))

\* GraphManager.reset(): event_nodes.clear(), then _initialize_graph()
ResetResult(g, file, nx) ==
    Result("None", LoadThemes(file), <<>>,
           InitializeGraph(g, LoadThemes(file), ThemeKeys(file), nx))

\* GraphManager.get_mentioned_theme_nodes, as the ids in dict order
GetMentionedThemeNodes(themes, keys) ==
    SelectSeq(keys, LAMBDA id : themes[id].status = MENTIONED)

\* GraphManager.get_pending_theme_nodes, as the ids in dict order
GetPendingThemeNodes(themes, keys) ==
    SelectSeq(keys, LAMBDA id : themes[id].status = PENDING)

\* GraphManager.get_exhausted_theme_nodes, as the ids in dict order
GetExhaustedThemeNodes(themes, keys) ==
    SelectSeq(keys, LAMBDA id : themes[id].status = EXHAUSTED)

\* min by ratio that keeps the last minimal item
MinByRatioLast(themes, ids) ==
    ids[CHOOSE i \in 1..Len(ids) :
            /\ \A j \in 1..Len(ids) :
                  ~RatioLess(GetCompletionRatio(themes[ids[j]]), GetCompletionRatio(themes[ids[i]]))
            /\ \A j \in (i + 1)..Len(ids) :
                  RatioLess(GetCompletionRatio(themes[ids[i]]), GetCompletionRatio(themes[ids[j]]))]

\* min(ids, key=completion ratio): Python's min keeps the first minimal item
MinByRatio(themes, ids) ==
    ids[CHOOSE i \in 1..Len(ids) :
            /\ \A j \in 1..Len(ids) :
                  ~RatioLess(GetCompletionRatio(themes[ids[j]]), GetCompletionRatio(themes[ids[i]]))
            /\ \A j \in 1..(i - 1) :
                  RatioLess(GetCompletionRatio(themes[ids[i]]), GetCompletionRatio(themes[ids[j]]))]

\* the first of the ids, whatever the priorities
FirstInOrder(themes, ids) == ids[1]

\* min(ids, key=priority)
MinByPriority(themes, ids) ==
    ids[CHOOSE i \in 1..Len(ids) :
            /\ \A j \in 1..Len(ids) : themes[ids[j]].priority >= themes[ids[i]].priority
            /\ \A j \in 1..(i - 1) : themes[ids[j]].priority > themes[ids[i]].priority]

\* sum of two ratios
RatioAdd(a, b) == <<a[1] * b[2] + b[1] * a[2], a[2] * b[2]>>

\* sum(completion ratios) over the ids, in order
RECURSIVE SumRatios(_, _, _)
SumRatios(themes, ids, i) ==
    IF i > Len(ids) THEN <<0, 1>>
    ELSE RatioAdd(GetCompletionRatio(themes[ids[i]]), SumRatios(themes, ids, i + 1))

\* sum(completions) / len(completions)
MeanRatio(themes, ids) ==
    LET total == SumRatios(themes, ids, 1) IN <<total[1], total[2] * Len(ids)>>

\* calculate_coverage reporting the sum of the ratios, not their mean
CalculateCoverageTotal(themes, keys) ==
    IF Len(keys) = 0 THEN [overall |-> <<0, 1>>, by_domain |-> <<>>]
    ELSE [overall |-> SumRatios(themes, keys, 1),
          by_domain |->
            [domain \in {themes[id].domain : id \in DOMAIN themes} |->
                MeanRatio(themes, SelectSeq(keys, LAMBDA id : themes[id].domain = domain))]]

\* GraphManager.calculate_coverage(): [overall, by_domain]
CalculateCoverage(themes, keys) ==
    IF Len(keys) = 0 THEN [overall |-> <<0, 1>>, by_domain |-> <<>>]
    ELSE [overall |-> MeanRatio(themes, keys),
          by_domain |->
            [domain \in {themes[id].domain : id \in DOMAIN themes} |->
                MeanRatio(themes, SelectSeq(keys, LAMBDA id : themes[id].domain = domain))]]

\* GraphManager.get_next_candidate_theme(): the id of the theme returned, or None
GetNextCandidateTheme(themes, keys) ==
    LET mentioned == GetMentionedThemeNodes(themes, keys)
        pending == SelectSeq(keys, LAMBDA id :
                        themes[id].status = PENDING /\ IsReadyToExplore(themes[id], themes))
    IN  IF Len(mentioned) > 0 THEN MinByRatio(themes, mentioned)
        ELSE IF Len(pending) = 0 THEN None
        ELSE MinByPriority(themes, pending)

\* the sort key of get_next_priority_theme: (priority, 0 if MENTIONED else 1),
\* compared as Python compares tuples
SortKeyLess(a, b) ==
    LET rank(t) == IF t.status = MENTIONED THEN 0 ELSE 1
    IN  a.priority < b.priority \/ (a.priority = b.priority /\ rank(a) < rank(b))

\* ThemeLoader.get_next_priority_theme() on the loader's theme set (the dict
\* load() returned, which is the manager's theme_nodes): the id of the theme
\* returned, or None
GetNextPriorityTheme(themes, keys) ==
    LET candidates == SelectSeq(keys, LAMBDA id :
                          /\ themes[id].status \in {PENDING, MENTIONED}
                          /\ IsReadyToExplore(themes[id], themes))
    IN  IF Len(candidates) = 0 THEN None
        ELSE candidates[CHOOSE i \in 1..Len(candidates) :
                /\ \A j \in 1..Len(candidates) :
                      ~SortKeyLess(themes[candidates[j]], themes[candidates[i]])
                /\ \A j \in 1..(i - 1) :
                      SortKeyLess(themes[candidates[i]], themes[candidates[j]])]

-----------------------------------------------------------------------------
(* Checkpoints: three files, graph_state.json, themes_state.json and         *)
(* events.json; each is missing, malformed (not parseable) or holds a record *)

MissingFile == [kind |-> "missing"]
MalformedFile == [kind |-> "malformed"]

\* graph_state.json: node_link_data(graph) or the plain structure; json.load
\* of it gives the graph back
GraphFile(g) == [kind |-> "ok", data |-> g]

\* themes_state.json: theme id -> ThemeNode.to_dict(), in dict order
ThemesFile(themes, keys) ==
    [kind |-> "ok", keys |-> keys, data |-> [id \in DOMAIN themes |-> ThemeToDict(themes[id])]]

\* events.json: event id -> EventNode.to_dict()
EventsFile(events) ==
    [kind |-> "ok", data |-> [id \in DOMAIN events |-> EventToDict(events[id])]]

\* GraphManager.save_checkpoint. fail_at: 0 when mkdir raises, 1..3 when the
\* write of that file raises (open(.., "w") has truncated it and the dump broke
\* off), 4 when nothing fails. Returns [ret, checkpoint].
SaveCheckpointResult(cp, themes, events, g, keys, fail_at) ==
    IF fail_at = 0 THEN [ret |-> "raised", checkpoint |-> cp]
    ELSE [ret |-> IF fail_at = 4 THEN "True" ELSE "False",
          checkpoint |->
            [graph |-> IF fail_at > 1 THEN GraphFile(g) ELSE MalformedFile,
             themes |-> IF fail_at > 2 THEN ThemesFile(themes, keys)
                        ELSE IF fail_at = 2 THEN MalformedFile
                        ELSE cp.themes,
             events |-> IF fail_at > 3 THEN EventsFile(events)
                        ELSE IF fail_at = 3 THEN MalformedFile
                        ELSE cp.events]]

\* the theme records applied, a record of an id that is no theme being added
RECURSIVE LoadThemeStatesAddingMissing(_, _, _, _)
LoadThemeStatesAddingMissing(themes, data, keys, i) ==
    IF i > Len(keys) THEN [ok |-> TRUE, theme_nodes |-> themes]
    ELSE IF keys[i] \notin DOMAIN themes
    THEN LoadThemeStatesAddingMissing(Put(themes, keys[i], data[keys[i]]), data, keys, i + 1)
    ELSE IF data[keys[i]].status \notin NodeStatusValues
    THEN [ok |-> FALSE, theme_nodes |-> themes]
    ELSE LoadThemeStatesAddingMissing(
            [themes EXCEPT ![keys[i]].status = data[keys[i]].status,
                           ![keys[i]].exploration_depth = data[keys[i]].exploration_depth,
                           ![keys[i]].slots_filled = data[keys[i]].slots_filled],
            data, keys, i + 1)

\* the theme records applied without their slots_filled
RECURSIVE LoadThemeStatesNoSlots(_, _, _, _)
LoadThemeStatesNoSlots(themes, data, keys, i) ==
    IF i > Len(keys) THEN [ok |-> TRUE, theme_nodes |-> themes]
    ELSE IF keys[i] \notin DOMAIN themes THEN LoadThemeStatesNoSlots(themes, data, keys, i + 1)
    ELSE IF data[keys[i]].status \notin NodeStatusValues
    THEN [ok |-> FALSE, theme_nodes |-> themes]
    ELSE LoadThemeStatesNoSlots(
            [themes EXCEPT ![keys[i]].status = data[keys[i]].status,
                           ![keys[i]].exploration_depth = data[keys[i]].exploration_depth],
            data, keys, i + 1)

\* load_checkpoint, lines 465-471: the saved theme records are applied in file
\* order; NodeStatus(value) raises on a value that is no status, and the themes
\* already overwritten stay overwritten
RECURSIVE LoadThemeStates(_, _, _, _)
LoadThemeStates(themes, data, keys, i) ==
    IF i > Len(keys) THEN [ok |-> TRUE, theme_nodes |-> themes]
    ELSE IF keys[i] \notin DOMAIN themes THEN LoadThemeStates(themes, data, keys, i + 1)
    ELSE IF data[keys[i]].status \notin NodeStatusValues
    THEN [ok |-> FALSE, theme_nodes |-> themes]
    ELSE LoadThemeStates(
            [themes EXCEPT ![keys[i]].status = data[keys[i]].status,
                           ![keys[i]].exploration_depth = data[keys[i]].exploration_depth,
                           ![keys[i]].slots_filled = data[keys[i]].slots_filled],
            data, keys, i + 1)

\* load_checkpoint, lines 477-479
LoadEvents(events, data) ==
    [id \in DOMAIN events \cup DOMAIN data |->
        IF id \in DOMAIN data THEN EventFromDict(data[id]) ELSE events[id]]

\* GraphManager.load_checkpoint
LoadCheckpointResult(themes, events, g, cp) ==
    IF cp.graph.kind # "ok" THEN Result("False", themes, events, g)
    ELSE IF cp.themes.kind # "ok" THEN Result("False", themes, events, cp.graph.data)
    ELSE LET loaded == LoadThemeStates(themes, cp.themes.data, cp.themes.keys, 1)
         IN  IF ~loaded.ok \/ cp.events.kind # "ok"
             THEN Result("False", loaded.theme_nodes, events, cp.graph.data)
             ELSE Result("True", loaded.theme_nodes, LoadEvents(events, cp.events.data),
                         cp.graph.data)

-----------------------------------------------------------------------------
(* The calls *)

Call(op, theme_id, event_id, ret) ==
    [op |-> op, theme_id |-> theme_id, event_id |-> event_id, ret |-> ret]

Tick == calls_left > 0 /\ calls_left' = calls_left - 1

Apply(r) ==
    /\ theme_nodes' = r.theme_nodes
    /\ event_nodes' = r.event_nodes
    /\ graph' = r.graph

\* the events the caller extracts: e1 names T1 as its theme, e2 names T2
EventInputs == {NewEvent("e1", "T1"), NewEvent("e2", "T2")}
\* the first of them alone, for the specifications that add a single event
FirstEvent == CHOOSE e \in EventInputs : e.event_id = "e1"
\* new_depth values: below 0, in range, above the cap
DepthInputs == {-1, 3, 7}
\* theme slots updated: declared slots of T2, an undeclared slot of T1
ThemeSlotInputs == {<<"T2", "s1">>, <<"T2", "s2">>, <<"T1", "s1">>}
\* event slots updated: a predefined slot, an unknown one, a slot cleared
EventSlotInputs ==
    {<<"time", [kind |-> "str", s |-> "1992", n |-> 0]>>,
     <<"mood", [kind |-> "int", s |-> "", n |-> 7]>>,
     <<"time", [kind |-> "none", s |-> "", n |-> 0]>>}

\* GraphManager.__init__ over a catalog and a backing; no checkpoint directory
ConstructedOver(files) ==
    /\ use_networkx \in BOOLEAN
    /\ themes_file \in files
    /\ theme_nodes = LoadThemes(themes_file)
    /\ event_nodes = <<>>
    /\ graph = FreshGraph(themes_file, use_networkx)
    /\ checkpoint = [graph |-> MissingFile, themes |-> MissingFile, events |-> MissingFile]
    /\ add_calls = [id \in ThemeIds |-> 0]
    /\ lastOp = Call("init", "", "", "None")
    /\ twin = Result("None", LoadThemes(themes_file), <<>>,
                     FreshGraph(themes_file, ~use_networkx))

Constructed == ConstructedOver(CatalogFiles)

Init == Constructed /\ calls_left = MaxCalls

AddEventNode(event, theme_id) ==
    /\ Tick
    /\ LET r == AddEventNodeResult(theme_nodes, event_nodes, graph, event, theme_id, use_networkx)
       IN  Apply(r) /\ lastOp' = Call("add_event_node", theme_id, event.event_id, r.ret)
    /\ add_calls' = IF theme_id \in DOMAIN theme_nodes
                    THEN [add_calls EXCEPT ![theme_id] = @ + 1] ELSE add_calls
    /\ UNCHANGED <<twin, use_networkx, themes_file, checkpoint>>

UpdateEventDepth(event_id, new_depth) ==
    /\ Tick
    /\ LET r == UpdateEventDepthResult(theme_nodes, event_nodes, graph, event_id, new_depth)
       IN  Apply(r) /\ lastOp' = Call("update_event_depth", "", event_id, r.ret)
    /\ UNCHANGED <<twin, add_calls, use_networkx, themes_file, checkpoint>>

MarkThemeExhausted(theme_id) ==
    /\ Tick
    /\ LET r == MarkThemeExhaustedResult(theme_nodes, event_nodes, graph, theme_id)
       IN  Apply(r) /\ lastOp' = Call("mark_theme_exhausted", theme_id, "", r.ret)
    /\ UNCHANGED <<twin, add_calls, use_networkx, themes_file, checkpoint>>

Reset ==
    /\ Tick
    /\ Apply(ResetResult(graph, themes_file, use_networkx))
    /\ lastOp' = Call("reset", "", "", "None")
    /\ add_calls' = [id \in ThemeIds |-> 0]
    /\ UNCHANGED <<twin, use_networkx, themes_file, checkpoint>>

SaveCheckpoint(fail_at) ==
    /\ Tick
    /\ LET r == SaveCheckpointResult(checkpoint, theme_nodes, event_nodes, graph,
                                     ThemeKeys(themes_file), fail_at)
       IN  checkpoint' = r.checkpoint /\ lastOp' = Call("save_checkpoint", "", "", r.ret)
    /\ UNCHANGED <<twin, add_calls, use_networkx, themes_file, theme_nodes, event_nodes, graph>>

LoadCheckpoint ==
    /\ Tick
    /\ LET r == LoadCheckpointResult(theme_nodes, event_nodes, graph, checkpoint)
       IN  Apply(r) /\ lastOp' = Call("load_checkpoint", "", "", r.ret)
    /\ UNCHANGED <<twin, add_calls, use_networkx, themes_file, checkpoint>>

\* theme_nodes[theme_id].mark_mentioned(), called on the node itself
ThemeMarkMentioned(theme_id) ==
    /\ Tick
    /\ theme_nodes' = [theme_nodes EXCEPT ![theme_id] = MarkMentioned(@)]
    /\ lastOp' = Call("ThemeNode.mark_mentioned", theme_id, "", "None")
    /\ UNCHANGED <<twin, add_calls, use_networkx, themes_file, event_nodes, graph, checkpoint>>

\* theme_nodes[theme_id].mark_exhausted(), called on the node itself
ThemeMarkExhausted(theme_id) ==
    /\ Tick
    /\ theme_nodes' = [theme_nodes EXCEPT ![theme_id] = MarkExhausted(@)]
    /\ lastOp' = Call("ThemeNode.mark_exhausted", theme_id, "", "None")
    /\ UNCHANGED <<twin, add_calls, use_networkx, themes_file, event_nodes, graph, checkpoint>>

\* theme_nodes[theme_id].increment_depth(), called on the node itself
ThemeIncrementDepth(theme_id) ==
    /\ Tick
    /\ theme_nodes' = [theme_nodes EXCEPT ![theme_id] = IncrementDepth(@)]
    /\ lastOp' = Call("ThemeNode.increment_depth", theme_id, "", "None")
    /\ UNCHANGED <<twin, add_calls, use_networkx, themes_file, event_nodes, graph, checkpoint>>

\* theme_nodes[theme_id].update_slot(slot_name, filled)
ThemeSlotUpdate(theme_id, slot_name, filled) ==
    /\ Tick
    /\ theme_id \in DOMAIN theme_nodes
    /\ theme_nodes' = [theme_nodes EXCEPT ![theme_id] = ThemeUpdateSlot(@, slot_name, filled)]
    /\ lastOp' = Call("ThemeNode.update_slot", theme_id, "", "None")
    /\ UNCHANGED <<twin, add_calls, use_networkx, themes_file, event_nodes, graph, checkpoint>>

\* event_nodes[event_id].update_slot(slot_name, value)
EventSlotUpdate(event_id, slot_name, value) ==
    /\ Tick
    /\ event_id \in DOMAIN event_nodes
    /\ event_nodes' = [event_nodes EXCEPT ![event_id] = EventUpdateSlot(@, slot_name, value)]
    /\ lastOp' = Call("EventNode.update_slot", "", event_id, "None")
    /\ UNCHANGED <<twin, add_calls, use_networkx, themes_file, theme_nodes, graph, checkpoint>>

\* theme_nodes[theme_id].get_next_seed_question()
ThemeGetNextSeedQuestion(theme_id) ==
    /\ Tick
    /\ theme_id \in DOMAIN theme_nodes
    /\ LET r == GetNextSeedQuestion(theme_nodes[theme_id])
       IN  /\ theme_nodes' = [theme_nodes EXCEPT ![theme_id] = r.node]
           /\ lastOp' = Call("ThemeNode.get_next_seed_question", theme_id, "", r.ret)
    /\ UNCHANGED <<twin, add_calls, use_networkx, themes_file, event_nodes, graph, checkpoint>>

\* theme_nodes[theme_id].has_more_questions()
ThemeHasMoreQuestions(theme_id) ==
    /\ Tick
    /\ theme_id \in DOMAIN theme_nodes
    /\ lastOp' = Call("ThemeNode.has_more_questions", theme_id, "",
                       IF HasMoreQuestions(theme_nodes[theme_id]) THEN "True" ELSE "False")
    /\ UNCHANGED <<twin, add_calls, use_networkx, themes_file, theme_nodes, event_nodes, graph,
                   checkpoint>>

\* theme_loader.load(), called by the caller on the manager's loader: the
\* loader builds a new theme set and returns it; the manager keeps the theme
\* set it holds
ThemeLoaderLoad ==
    /\ Tick
    /\ lastOp' = Call("ThemeLoader.load", "", "", "dict")
    /\ UNCHANGED <<twin, add_calls, use_networkx, themes_file, theme_nodes, event_nodes, graph,
                   checkpoint>>

\* theme_loader.reload(): clears the loader's theme set and calls load()
ThemeLoaderReload ==
    /\ Tick
    /\ lastOp' = Call("ThemeLoader.reload", "", "", "dict")
    /\ UNCHANGED <<twin, add_calls, use_networkx, themes_file, theme_nodes, event_nodes, graph,
                   checkpoint>>

\* add_event_node(event, theme_id) called on the manager and on its twin
BothAddEventNode(event, theme_id) ==
    /\ Tick
    /\ LET r == AddEventNodeResult(theme_nodes, event_nodes, graph, event, theme_id, use_networkx)
       IN  Apply(r) /\ lastOp' = Call("add_event_node", theme_id, event.event_id, r.ret)
    /\ twin' = AddEventNodeResult(twin.theme_nodes, twin.event_nodes, twin.graph, event,
                                  theme_id, ~use_networkx)
    /\ add_calls' = IF theme_id \in DOMAIN theme_nodes
                    THEN [add_calls EXCEPT ![theme_id] = @ + 1] ELSE add_calls
    /\ UNCHANGED <<use_networkx, themes_file, checkpoint>>

\* update_event_depth(event_id, new_depth) called on both
BothUpdateEventDepth(event_id, new_depth) ==
    /\ Tick
    /\ LET r == UpdateEventDepthResult(theme_nodes, event_nodes, graph, event_id, new_depth)
       IN  Apply(r) /\ lastOp' = Call("update_event_depth", "", event_id, r.ret)
    /\ twin' = UpdateEventDepthResult(twin.theme_nodes, twin.event_nodes, twin.graph,
                                      event_id, new_depth)
    /\ UNCHANGED <<add_calls, use_networkx, themes_file, checkpoint>>

\* mark_theme_exhausted(theme_id) called on both
BothMarkThemeExhausted(theme_id) ==
    /\ Tick
    /\ LET r == MarkThemeExhaustedResult(theme_nodes, event_nodes, graph, theme_id)
       IN  Apply(r) /\ lastOp' = Call("mark_theme_exhausted", theme_id, "", r.ret)
    /\ twin' = MarkThemeExhaustedResult(twin.theme_nodes, twin.event_nodes, twin.graph, theme_id)
    /\ UNCHANGED <<add_calls, use_networkx, themes_file, checkpoint>>

\* reset() called on both
BothReset ==
    /\ Tick
    /\ Apply(ResetResult(graph, themes_file, use_networkx))
    /\ lastOp' = Call("reset", "", "", "None")
    /\ twin' = ResetResult(twin.graph, themes_file, ~use_networkx)
    /\ add_calls' = [id \in ThemeIds |-> 0]
    /\ UNCHANGED <<use_networkx, themes_file, checkpoint>>

\* get_next_candidate_theme() called on both
BothGetNextCandidateTheme ==
    /\ Tick
    /\ lastOp' = Call("get_next_candidate_theme", "", "",
                       GetNextCandidateTheme(theme_nodes, ThemeKeys(themes_file)))
    /\ twin' = [twin EXCEPT !.ret =
                    GetNextCandidateTheme(twin.theme_nodes, ThemeKeys(themes_file))]
    /\ UNCHANGED <<add_calls, use_networkx, themes_file, theme_nodes, event_nodes, graph,
                   checkpoint>>

\* the caller of the recommend-and-complete loop asks for the next theme; the
\* loop goes on for as long as it takes, so the call is not counted in
\* calls_left
AskNextCandidateTheme ==
    /\ lastOp' = Call("get_next_candidate_theme", "", "",
                       GetNextCandidateTheme(theme_nodes, ThemeKeys(themes_file)))
    /\ UNCHANGED <<twin, calls_left, add_calls, use_networkx, themes_file, theme_nodes,
                   event_nodes, graph, checkpoint>>

\* the caller marks the theme exhausted that get_next_candidate_theme() has
\* just returned
MarkReturnedThemeExhausted ==
    /\ lastOp.op = "get_next_candidate_theme"
    /\ lastOp.ret # None
    /\ LET r == MarkThemeExhaustedResult(theme_nodes, event_nodes, graph, lastOp.ret)
       IN  Apply(r) /\ lastOp' = Call("mark_theme_exhausted", lastOp.ret, "", r.ret)
    /\ UNCHANGED <<twin, calls_left, add_calls, use_networkx, themes_file, checkpoint>>

\* themes_state.json edited outside the program: T2's status is made a value
\* that is no NodeStatus
EditThemesFile ==
    /\ Tick
    /\ checkpoint.themes.kind = "ok"
    /\ checkpoint' = [checkpoint EXCEPT !.themes.data["T2"].status = "done"]
    /\ lastOp' = Call("edit themes_state.json", "", "", "None")
    /\ UNCHANGED <<twin, add_calls, use_networkx, themes_file, theme_nodes, event_nodes, graph>>

\* a GraphManager over catalog D, with the same backing, after
\* add_event_node(e2, "T1") and, from progress 2 on, update_slot("s1") on T1
\* and mark_theme_exhausted("T4")
OtherManager(nx, progress) ==
    LET added == AddEventNodeResult(LoadThemes("D"), <<>>, FreshGraph("D", nx),
                                    NewEvent("e2", "T1"), "T1", nx)
        marked == MarkThemeExhaustedResult(
                      [added.theme_nodes EXCEPT !["T1"] = ThemeUpdateSlot(@, "s1", TRUE)],
                      added.event_nodes, added.graph, "T4")
    IN  IF progress = 1 THEN added ELSE marked

\* save_checkpoint of the same session by that other manager
SaveCheckpointOfOtherCatalog(progress) ==
    /\ Tick
    /\ LET other == OtherManager(use_networkx, progress)
           r == SaveCheckpointResult(checkpoint, other.theme_nodes, other.event_nodes,
                                     other.graph, ThemeKeys("D"), 4)
       IN  checkpoint' = r.checkpoint
    /\ lastOp' = Call("save_checkpoint over another catalog", "", "", "True")
    /\ UNCHANGED <<twin, add_calls, use_networkx, themes_file, theme_nodes, event_nodes, graph>>

\* what a call that only reads the manager leaves alone
ReadOnly ==
    UNCHANGED <<twin, add_calls, use_networkx, themes_file, theme_nodes, event_nodes, graph,
                checkpoint>>

\* the queries; ret names what the call returns
CalculateCoverageCall ==
    /\ Tick
    /\ lastOp' = Call("calculate_coverage", "", "", "dict")
    /\ ReadOnly

GetNextCandidateThemeCall ==
    /\ Tick
    /\ lastOp' = Call("get_next_candidate_theme", "", "",
                       GetNextCandidateTheme(theme_nodes, ThemeKeys(themes_file)))
    /\ ReadOnly

GetThemeStatusCall(theme_id) ==
    /\ Tick
    /\ lastOp' = Call("get_theme_status", theme_id, "",
                       IF theme_id \in DOMAIN theme_nodes THEN "dict" ELSE None)
    /\ ReadOnly

GetGraphStateCall ==
    /\ Tick
    /\ lastOp' = Call("get_graph_state", "", "", "dict")
    /\ ReadOnly

GetPendingThemeNodesCall ==
    /\ Tick
    /\ lastOp' = Call("get_pending_theme_nodes", "", "", "list")
    /\ ReadOnly

GetMentionedThemeNodesCall ==
    /\ Tick
    /\ lastOp' = Call("get_mentioned_theme_nodes", "", "", "list")
    /\ ReadOnly

GetExhaustedThemeNodesCall ==
    /\ Tick
    /\ lastOp' = Call("get_exhausted_theme_nodes", "", "", "list")
    /\ ReadOnly

Next ==
    \/ \E event \in EventInputs, theme_id \in ThemeIds \cup {UnknownThemeId} :
          AddEventNode(event, theme_id)
    \/ \E event_id \in EventIds \cup {UnknownEventId}, new_depth \in DepthInputs :
          UpdateEventDepth(event_id, new_depth)
    \/ \E theme_id \in ThemeIds \cup {UnknownThemeId} : MarkThemeExhausted(theme_id)
    \/ Reset
    \/ \E fail_at \in 0..4 : SaveCheckpoint(fail_at)
    \/ LoadCheckpoint
    \/ \E theme_id \in ThemeIds : ThemeMarkMentioned(theme_id)
    \/ \E theme_id \in ThemeIds : ThemeMarkExhausted(theme_id)
    \/ \E theme_id \in ThemeIds : ThemeIncrementDepth(theme_id)
    \/ \E slot \in ThemeSlotInputs, filled \in BOOLEAN : ThemeSlotUpdate(slot[1], slot[2], filled)
    \/ \E event_id \in EventIds, slot \in EventSlotInputs :
          EventSlotUpdate(event_id, slot[1], slot[2])
    \/ EditThemesFile

Spec == Init /\ [][Next]_vars

\* a caller that only adds events, marks themes exhausted and updates event
\* depths, and makes more calls
InitAdd == Constructed /\ calls_left = MaxAddCalls

NextAdd ==
    \/ \E event \in EventInputs, theme_id \in {"T1", "T2"} : AddEventNode(event, theme_id)
    \/ \E new_depth \in DepthInputs : UpdateEventDepth("e1", new_depth)
    \/ \E theme_id \in {"T1", "T2"} : MarkThemeExhausted(theme_id)

SpecAdd == InitAdd /\ [][NextAdd]_vars

\* a caller that deepens themes, through events and on the nodes themselves,
\* fills and clears a slot, marks a theme exhausted, and saves and restores
\* checkpoints
InitDepth == Constructed /\ calls_left = MaxDepthCalls

NextDepth ==
    \/ AddEventNode(FirstEvent, "T1")
    \/ \E theme_id \in {"T1", "T2"} : ThemeIncrementDepth(theme_id)
    \/ \E filled \in BOOLEAN : ThemeSlotUpdate("T2", "s1", filled)
    \/ MarkThemeExhausted("T1")
    \/ SaveCheckpoint(4)
    \/ LoadCheckpoint

SpecDepth == InitDepth /\ [][NextDepth]_vars

\* a caller over a catalog with or without themes who changes the themes in
\* every way that moves the coverage
InitCoverage == ConstructedOver({"A", "E"}) /\ calls_left = MaxCalls

NextCoverage ==
    \/ \E event \in EventInputs, theme_id \in {"T1", "T2"} : AddEventNode(event, theme_id)
    \/ MarkThemeExhausted("T1")
    \/ \E slot \in ThemeSlotInputs, filled \in BOOLEAN : ThemeSlotUpdate(slot[1], slot[2], filled)
    \/ SaveCheckpoint(4)
    \/ LoadCheckpoint
    \/ Reset

SpecCoverage == InitCoverage /\ [][NextCoverage]_vars

\* a caller who marks themes exhausted, in any order, and adds an event, over
\* catalogs in which T3 waits for T1
InitDeps == ConstructedOver({"A", "B", "C"}) /\ calls_left = MaxCalls

NextDeps ==
    \/ \E theme_id \in ThemeIds \cup {UnknownThemeId} : MarkThemeExhausted(theme_id)
    \/ \E theme_id \in {"T1", "T2"} : AddEventNode(FirstEvent, theme_id)

SpecDeps == InitDeps /\ [][NextDeps]_vars

\* a caller who adds events and then calls the operations that are not to
\* touch a theme's depth: event depth updates, exhaustion, the queries, saves
InitFrame == Constructed /\ calls_left = MaxCalls

NextFrame ==
    \/ \E theme_id \in {"T1", "T2"} : AddEventNode(FirstEvent, theme_id)
    \/ \E event_id \in {"e1", UnknownEventId}, new_depth \in DepthInputs :
          UpdateEventDepth(event_id, new_depth)
    \/ \E theme_id \in {"T1", UnknownThemeId} : MarkThemeExhausted(theme_id)
    \/ \E fail_at \in 0..4 : SaveCheckpoint(fail_at)
    \/ CalculateCoverageCall
    \/ GetNextCandidateThemeCall
    \/ \E theme_id \in {"T1", UnknownThemeId} : GetThemeStatusCall(theme_id)
    \/ GetGraphStateCall
    \/ GetPendingThemeNodesCall
    \/ GetMentionedThemeNodesCall
    \/ GetExhaustedThemeNodesCall

SpecFrame == InitFrame /\ [][NextFrame]_vars

\* a caller who restores checkpoints written over this catalog and over
\* another one
InitCatalog == Constructed /\ calls_left = MaxCalls

NextCatalog ==
    \/ \E theme_id \in {"T1", "T2"} : AddEventNode(FirstEvent, theme_id)
    \/ \E theme_id \in ThemeIds : MarkThemeExhausted(theme_id)
    \/ ThemeSlotUpdate("T2", "s1", TRUE)
    \/ SaveCheckpoint(4)
    \/ \E progress \in 1..2 : SaveCheckpointOfOtherCatalog(progress)
    \/ LoadCheckpoint

SpecCatalog == InitCatalog /\ [][NextCatalog]_vars

\* a caller who only mentions and exhausts themes, on the nodes and through
\* the manager, and adds events
InitMention == Constructed /\ calls_left = MaxCalls

NextMention ==
    \/ \E theme_id \in ThemeIds : ThemeMarkMentioned(theme_id)
    \/ \E theme_id \in ThemeIds : ThemeMarkExhausted(theme_id)
    \/ \E theme_id \in ThemeIds : MarkThemeExhausted(theme_id)
    \/ \E event \in EventInputs, theme_id \in ThemeIds : AddEventNode(event, theme_id)

SpecMention == InitMention /\ [][NextMention]_vars

\* a caller who asks themes for their seed questions, over catalogs whose
\* themes have no, one and two questions
InitSeed == ConstructedOver({"A", "F"}) /\ calls_left = MaxSeedCalls

NextSeed ==
    \/ \E theme_id \in ThemeIds : ThemeGetNextSeedQuestion(theme_id)
    \/ \E theme_id \in ThemeIds : ThemeHasMoreQuestions(theme_id)

SpecSeed == InitSeed /\ [][NextSeed]_vars

\* a caller who changes themes through the manager and has the catalog loaded
\* again, by the loader and by reset(); in one catalog a theme is listed under
\* a domain that is no Domain
InitLoad == ConstructedOver({"A", "G"}) /\ calls_left = MaxCalls

NextLoad ==
    \/ \E theme_id \in {"T1", "T3"} : AddEventNode(FirstEvent, theme_id)
    \/ MarkThemeExhausted("T1")
    \/ ThemeSlotUpdate("T1", "s1", TRUE)
    \/ ThemeLoaderLoad
    \/ ThemeLoaderReload
    \/ Reset

SpecLoad == InitLoad /\ [][NextLoad]_vars

\* a caller who makes every call on two managers over the same catalog, one
\* with each backing
InitBacking == Constructed /\ calls_left = MaxCalls

NextBacking ==
    \/ \E event \in EventInputs, theme_id \in {"T1", "T2", UnknownThemeId} :
          BothAddEventNode(event, theme_id)
    \/ \E event_id \in {"e1", UnknownEventId}, new_depth \in DepthInputs :
          BothUpdateEventDepth(event_id, new_depth)
    \/ \E theme_id \in {"T1", UnknownThemeId} : BothMarkThemeExhausted(theme_id)
    \/ BothReset
    \/ BothGetNextCandidateTheme

SpecBacking == InitBacking /\ [][NextBacking]_vars

\* a caller who changes the status of themes through the manager, resets it,
\* and saves and restores checkpoints
InitMirror == Constructed /\ calls_left = MaxCalls

NextMirror ==
    \/ \E event \in EventInputs, theme_id \in ThemeIds : AddEventNode(event, theme_id)
    \/ \E theme_id \in ThemeIds : MarkThemeExhausted(theme_id)
    \/ Reset
    \/ SaveCheckpoint(4)
    \/ LoadCheckpoint

SpecMirror == InitMirror /\ [][NextMirror]_vars

\* a caller who adds the same events again and again, marks a theme exhausted
\* and resets the manager, and never restores a checkpoint
InitCount == Constructed /\ calls_left = MaxDepthCalls

NextCount ==
    \/ \E event \in EventInputs, theme_id \in {"T1", "T2"} : AddEventNode(event, theme_id)
    \/ MarkThemeExhausted("T1")
    \/ Reset

SpecCount == InitCount /\ [][NextCount]_vars

\* a caller who deepens two themes, through events and on the node itself, and
\* sets slots of the theme that has two, under their names and under a name
\* the catalog does not declare
SlotNameInputs == {"s1", "s2", "sx"}

InitSlots == Constructed /\ calls_left = MaxDepthCalls

NextSlots ==
    \/ \E theme_id \in {"T1", "T2"} : AddEventNode(FirstEvent, theme_id)
    \/ ThemeIncrementDepth("T2")
    \/ \E slot_name \in SlotNameInputs, filled \in BOOLEAN :
          ThemeSlotUpdate("T2", slot_name, filled)

SpecSlots == InitSlots /\ [][NextSlots]_vars

\* the recommend-and-complete loop: the caller asks for the next theme and
\* marks the theme returned exhausted, until none is returned, and adds a
\* bounded number of events in between; the caller keeps the loop going
\* (weak fairness of its two steps). Catalogs: dependencies on themes, on an
\* unknown id, and in a cycle.
InitLoop == ConstructedOver({"A", "B", "C", "H"}) /\ calls_left = MaxCalls

NextLoop ==
    \/ AskNextCandidateTheme
    \/ MarkReturnedThemeExhausted
    \/ \E event \in EventInputs, theme_id \in ThemeIds : AddEventNode(event, theme_id)

SpecLoop ==
    /\ InitLoop /\ [][NextLoop]_vars
    /\ WF_vars(AskNextCandidateTheme) /\ WF_vars(MarkReturnedThemeExhausted)

-----------------------------------------------------------------------------
(* Properties *)

Keys == ThemeKeys(themes_file)
Candidate == GetNextCandidateTheme(theme_nodes, Keys)
Ratio(id) == GetCompletionRatio(theme_nodes[id])
Position(id) == CHOOSE i \in 1..Len(Keys) : Keys[i] = id
MentionedIds == {id \in DOMAIN theme_nodes : theme_nodes[id].status = MENTIONED}
\* PENDING themes all of whose dependencies are themes and EXHAUSTED
ReadyIds ==
    {id \in DOMAIN theme_nodes :
        /\ theme_nodes[id].status = PENDING
        /\ \A dep \in SeqToSet(theme_nodes[id].depends_on) :
              dep \in DOMAIN theme_nodes /\ theme_nodes[dep].status = EXHAUSTED}
Rank(status) == IF status = PENDING THEN 0 ELSE IF status = MENTIONED THEN 1 ELSE 2
StatusNeverLowered ==
    \A id \in DOMAIN theme_nodes :
        Rank(theme_nodes'[id].status) >= Rank(theme_nodes[id].status)

\* C1: for every theme, the ids in extracted_events are exactly the ids of the
\* events in event_nodes whose theme_id is that theme.
C1_ExtractedEventsMatchOwners ==
    \A id \in DOMAIN theme_nodes :
        SeqToSet(theme_nodes[id].extracted_events)
            = {e \in DOMAIN event_nodes : event_nodes[e].theme_id = theme_nodes[id].theme_id}

\* C2 as stated: no call of mark_mentioned, mark_exhausted, increment_depth,
\* update_slot, add_event_node, update_event_depth, mark_theme_exhausted,
\* save_checkpoint or load_checkpoint lowers a theme's status. (A load that
\* reports failure is C9's matter; the loads meant here are those that succeed.)
C2_StatusMonotonicWithLoad ==
    [][/\ lastOp'.op \in {"ThemeNode.mark_mentioned", "ThemeNode.mark_exhausted",
                          "ThemeNode.increment_depth", "ThemeNode.update_slot",
                          "add_event_node", "update_event_depth", "mark_theme_exhausted",
                          "save_checkpoint", "load_checkpoint"}
       /\ lastOp'.op = "load_checkpoint" => lastOp'.ret = "True"
       => StatusNeverLowered]_vars

\* C2 amended: no call other than load_checkpoint and reset lowers a theme's
\* status: PENDING -> MENTIONED -> EXHAUSTED, and EXHAUSTED is terminal.
C2_StatusMonotonic ==
    [][lastOp'.op \notin {"load_checkpoint", "reset"} => StatusNeverLowered]_vars

\* an event was added to a theme that is EXHAUSTED, and the theme stayed so
C2_Witness ==
    /\ lastOp.op = "add_event_node" /\ lastOp.ret = "True"
    /\ theme_nodes[lastOp.theme_id].status = EXHAUSTED

\* C3: get_next_candidate_theme() never returns a theme one of whose
\* dependencies is a theme that is not EXHAUSTED.
C3_CandidateNeverBlocked ==
    Candidate # None =>
        \A dep \in SeqToSet(theme_nodes[Candidate].depends_on) :
            dep \in DOMAIN theme_nodes => theme_nodes[dep].status = EXHAUSTED

\* C4: while a theme is MENTIONED, get_next_candidate_theme() returns a
\* MENTIONED theme of minimal completion ratio, the first such in insertion
\* order; never a PENDING theme, never absent.
C4_MentionedFirstByRatio ==
    MentionedIds # {} =>
        LET returned == Candidate
        IN  /\ returned \in MentionedIds
            /\ \A id \in MentionedIds : ~RatioLess(Ratio(id), Ratio(returned))
            /\ \A id \in MentionedIds :
                  RatioEq(Ratio(id), Ratio(returned)) => Position(returned) <= Position(id)

\* two themes are MENTIONED, a PENDING theme exists, and the ratio, not the
\* order, decides: the theme returned is not the first MENTIONED one
C4_Witness ==
    /\ Cardinality(MentionedIds) >= 2
    /\ \E id \in DOMAIN theme_nodes : theme_nodes[id].status = PENDING
    /\ \E id \in MentionedIds :
          Position(id) < Position(Candidate) /\ RatioLess(Ratio(Candidate), Ratio(id))

\* C5: while no theme is MENTIONED, get_next_candidate_theme() returns the
\* PENDING theme of lowest priority number among those whose dependencies are
\* all themes and EXHAUSTED (the first in insertion order on ties), and absent
\* exactly when there is none.
C5_PendingByPriority ==
    LET returned == Candidate
        ready == ReadyIds
    IN  /\ MentionedIds = {} =>
              IF ready = {} THEN returned = None
              ELSE /\ returned \in ready
                   /\ \A id \in ready :
                         /\ theme_nodes[id].priority >= theme_nodes[returned].priority
                         /\ theme_nodes[id].priority = theme_nodes[returned].priority
                               => Position(returned) <= Position(id)
        /\ returned = None <=> (MentionedIds = {} /\ ready = {})

\* no theme is MENTIONED and the priority, not the order, decides: a ready
\* PENDING theme comes before the one returned
C5_Witness ==
    /\ MentionedIds = {}
    /\ Candidate \in ReadyIds
    /\ \E id \in ReadyIds : Position(id) < Position(Candidate)

AddedTo(id) == lastOp'.op = "add_event_node" /\ lastOp'.theme_id = id
OtherThemesUntouched(id) ==
    \A other \in DOMAIN theme_nodes \ {id} :
        /\ theme_nodes'[other].status = theme_nodes[other].status
        /\ theme_nodes'[other].exploration_depth = theme_nodes[other].exploration_depth
        /\ theme_nodes'[other].extracted_events = theme_nodes[other].extracted_events

\* C6 as stated: add_event_node on a known theme id returns success, records
\* the event, raises the theme's extracted-event count by exactly 1 and its
\* depth by exactly 1, makes the theme MENTIONED iff it was PENDING, and
\* touches no other theme.
C6_AddRaisesCountAndDepthByOne ==
    [][\A id \in DOMAIN theme_nodes : AddedTo(id) =>
          /\ lastOp'.ret = "True"
          /\ lastOp'.event_id \in DOMAIN event_nodes'
          /\ Len(theme_nodes'[id].extracted_events) = Len(theme_nodes[id].extracted_events) + 1
          /\ theme_nodes'[id].exploration_depth = theme_nodes[id].exploration_depth + 1
          /\ theme_nodes'[id].status =
                IF theme_nodes[id].status = PENDING THEN MENTIONED ELSE theme_nodes[id].status
          /\ OtherThemesUntouched(id)]_vars

\* C6 amended: add_event_node on a known theme id returns success, records the
\* event, raises the theme's extracted-event count by 1 when the event id is
\* not yet among its extracted events and leaves it unchanged when it is, sets
\* the depth to min(depth + 1, 5), makes the theme MENTIONED iff it was
\* PENDING, and touches no other theme.
C6_AddCountsNewEventAndCapsDepth ==
    [][\A id \in DOMAIN theme_nodes : AddedTo(id) =>
          /\ lastOp'.ret = "True"
          /\ lastOp'.event_id \in DOMAIN event_nodes'
          /\ Len(theme_nodes'[id].extracted_events) =
                IF lastOp'.event_id \in SeqToSet(theme_nodes[id].extracted_events)
                THEN Len(theme_nodes[id].extracted_events)
                ELSE Len(theme_nodes[id].extracted_events) + 1
          /\ theme_nodes'[id].exploration_depth =
                IF theme_nodes[id].exploration_depth + 1 <= MaxThemeDepth
                THEN theme_nodes[id].exploration_depth + 1 ELSE MaxThemeDepth
          /\ theme_nodes'[id].status =
                IF theme_nodes[id].status = PENDING THEN MENTIONED ELSE theme_nodes[id].status
          /\ OtherThemesUntouched(id)]_vars

\* an event was added to a theme that already had depth 5 and already held
\* the event id
C6_Witness ==
    /\ lastOp.op = "add_event_node" /\ lastOp.ret = "True"
    /\ add_calls[lastOp.theme_id] > MaxThemeDepth
    /\ theme_nodes[lastOp.theme_id].exploration_depth = MaxThemeDepth
    /\ Len(theme_nodes[lastOp.theme_id].extracted_events) < add_calls[lastOp.theme_id]

\* C7: add_event_node and mark_theme_exhausted with an unknown theme id, and
\* update_event_depth with an unknown event id, return False without raising
\* and leave the themes, the events and the graph as they were.
C7_UnknownIdsHaveNoEffect ==
    [][\/ /\ lastOp'.op \in {"add_event_node", "mark_theme_exhausted"}
          /\ lastOp'.theme_id \notin DOMAIN theme_nodes
       \/ /\ lastOp'.op = "update_event_depth"
          /\ lastOp'.event_id \notin DOMAIN event_nodes
       => lastOp'.ret = "False" /\ UNCHANGED <<theme_nodes, event_nodes, graph>>]_vars

\* add_event_node was called with an unknown theme id while events exist
C7_Witness ==
    /\ lastOp.op = "add_event_node" /\ lastOp.theme_id = UnknownThemeId
    /\ lastOp.ret = "False"
    /\ DOMAIN event_nodes # {}
    /\ lastOp.event_id \notin DOMAIN event_nodes

\* what save_checkpoint, reset() and load_checkpoint, called in this order on
\* the current state with no write failing, leave in memory
SavedResetLoaded ==
    LET saved == SaveCheckpointResult(checkpoint, theme_nodes, event_nodes, graph, Keys, 4)
        fresh == ResetResult(graph, themes_file, use_networkx)
    IN  LoadCheckpointResult(fresh.theme_nodes, fresh.event_nodes, fresh.graph,
                             saved.checkpoint)

\* C8: save_checkpoint, then reset(), then load_checkpoint succeeds and gives
\* every theme the status, exploration_depth and slots_filled it had, and
\* event_nodes the same event ids with the same slots.
C8_SaveResetLoadRoundTrip ==
    LET after == SavedResetLoaded
    IN  /\ after.ret = "True"
        /\ \A id \in DOMAIN theme_nodes :
              /\ after.theme_nodes[id].status = theme_nodes[id].status
              /\ after.theme_nodes[id].exploration_depth = theme_nodes[id].exploration_depth
              /\ after.theme_nodes[id].slots_filled = theme_nodes[id].slots_filled
        /\ DOMAIN after.event_nodes = DOMAIN event_nodes
        /\ \A e \in DOMAIN event_nodes : after.event_nodes[e].slots = event_nodes[e].slots

\* the state saved holds an event whose slots were updated, a
\* theme with a slot filled, and a theme that is no longer PENDING
C8_Witness ==
    /\ \E e \in DOMAIN event_nodes :
          /\ event_nodes[e].slots # DefaultEventSlots
          /\ SavedResetLoaded.event_nodes[e].slots = event_nodes[e].slots
    /\ \E id \in DOMAIN theme_nodes : \E s \in DOMAIN theme_nodes[id].slots_filled :
          theme_nodes[id].slots_filled[s]
    /\ \E id \in DOMAIN theme_nodes : theme_nodes[id].status # PENDING

\* C9: a load_checkpoint that returns failure leaves the graph, the themes and
\* the events exactly as they were.
C9_FailedLoadChangesNothing ==
    [][lastOp'.op = "load_checkpoint" /\ lastOp'.ret = "False"
        => UNCHANGED <<theme_nodes, event_nodes, graph>>]_vars

\* C10: after reset() the manager is as freshly constructed: no events, every
\* theme as loaded from the catalog, and a graph of one node per theme plus
\* the dependency edges.
C10_ResetGivesFreshManager ==
    lastOp.op = "reset" =>
        /\ event_nodes = <<>>
        /\ theme_nodes = LoadThemes(themes_file)
        /\ graph = FreshGraph(themes_file, use_networkx)

DepthInRange ==
    \A id \in DOMAIN theme_nodes :
        theme_nodes[id].exploration_depth \in 0..MaxThemeDepth

\* C11: every theme's exploration_depth stays within 0..5 under
\* increment_depth, add_event_node, mark_theme_exhausted and load_checkpoint of
\* a checkpoint written by save_checkpoint, and no increment_depth or
\* add_event_node lowers it.
C11_DepthBounded ==
    /\ []DepthInRange
    /\ [][lastOp'.op \in {"ThemeNode.increment_depth", "add_event_node"} =>
            \A id \in DOMAIN theme_nodes :
                theme_nodes'[id].exploration_depth >= theme_nodes[id].exploration_depth]_vars

\* increment_depth was called on a theme that has been at depth 5 since the
\* checkpoint was saved
C11_Witness ==
    /\ lastOp.op = "ThemeNode.increment_depth"
    /\ checkpoint.themes.kind = "ok"
    /\ checkpoint.themes.data[lastOp.theme_id].exploration_depth = MaxThemeDepth
    /\ theme_nodes[lastOp.theme_id].exploration_depth = MaxThemeDepth

FilledSlots(id) == {s \in DOMAIN theme_nodes[id].slots_filled : theme_nodes[id].slots_filled[s]}
CappedDepth(id) ==
    IF theme_nodes[id].exploration_depth < MaxThemeDepth
    THEN theme_nodes[id].exploration_depth ELSE MaxThemeDepth

\* C12: get_completion_ratio() is filled/total when some slot is filled, and
\* min(exploration_depth/5, 1) when no slot is filled or there are no slots;
\* it lies in [0, 1].
C12_CompletionRatio ==
    \A id \in DOMAIN theme_nodes :
        LET ratio == Ratio(id)
        IN  /\ ratio[2] > 0 /\ 0 <= ratio[1] /\ ratio[1] <= ratio[2]
            /\ IF FilledSlots(id) # {}
               THEN ratio[1] * Cardinality(DOMAIN theme_nodes[id].slots_filled)
                        = Cardinality(FilledSlots(id)) * ratio[2]
               ELSE ratio[1] * MaxThemeDepth = CappedDepth(id) * ratio[2]

\* a theme at depth 5 with one slot filled and one not (its ratio is 1/2),
\* next to a theme without slots that has been deepened
C12_Witness ==
    /\ \E id \in DOMAIN theme_nodes :
          /\ theme_nodes[id].exploration_depth = MaxThemeDepth
          /\ FilledSlots(id) # {}
          /\ FilledSlots(id) # DOMAIN theme_nodes[id].slots_filled
          /\ RatioEq(Ratio(id), <<1, 2>>)
    /\ \E id \in DOMAIN theme_nodes :
          DOMAIN theme_nodes[id].slots_filled = {} /\ theme_nodes[id].exploration_depth > 0

Overall == CalculateCoverage(theme_nodes, Keys).overall
\* the numerators of the themes' ratios over the product of their denominators
RECURSIVE RatioSumOver(_)
RatioSumOver(ids) ==
    IF ids = {} THEN <<0, 1>>
    ELSE LET id == CHOOSE x \in ids : TRUE
             rest == RatioSumOver(ids \ {id})
         IN  <<Ratio(id)[1] * rest[2] + rest[1] * Ratio(id)[2], Ratio(id)[2] * rest[2]>>

\* C13: calculate_coverage()["overall"] is the arithmetic mean of the
\* completion ratios of the themes as they are now (0 without themes).
C13_OverallIsMean ==
    LET overall == Overall
        total == RatioSumOver(DOMAIN theme_nodes)
        count == Cardinality(DOMAIN theme_nodes)
    IN  /\ overall[2] > 0
        /\ IF count = 0 THEN overall[1] = 0
           ELSE overall[1] * count * total[2] = total[1] * overall[2]

\* a slot was just filled and the coverage is the mean of 1/5 (a theme at
\* depth 1), 1/2 (one slot of two filled) and 0
C13_Witness ==
    /\ lastOp.op = "ThemeNode.update_slot"
    /\ Cardinality(DOMAIN theme_nodes) = 3
    /\ \E id \in DOMAIN theme_nodes : RatioEq(Ratio(id), <<1, 5>>)
    /\ \E id \in DOMAIN theme_nodes : RatioEq(Ratio(id), <<1, 2>>)
    /\ RatioEq(Overall, <<7, 30>>)

\* C14: on a manager that started with coverage 0, the overall coverage is
\* above 0 once an add_event_node has succeeded, and stays above 0 under
\* further add_event_node, mark_theme_exhausted and update_event_depth calls.
C14_CoveragePositiveAfterAdd ==
    IF \E id \in DOMAIN theme_nodes : add_calls[id] > 0
    THEN Overall[1] > 0 /\ Overall[2] > 0
    ELSE Overall[1] = 0

\* after an event was added to one theme, another theme to which nothing was
\* added has been marked exhausted
C14_Witness ==
    /\ lastOp.op = "mark_theme_exhausted" /\ lastOp.ret = "True"
    /\ add_calls[lastOp.theme_id] = 0
    /\ \E id \in DOMAIN theme_nodes : add_calls[id] > 0
    /\ Overall[1] > 0

\* mark_theme_exhausted(x) has just returned success
JustExhausted(x) ==
    lastOp.op = "mark_theme_exhausted" /\ lastOp.ret = "True" /\ lastOp.theme_id = x
\* theme id is PENDING and waits for x alone
WaitsFor(id, x) ==
    theme_nodes[id].status = PENDING /\ theme_nodes[id].depends_on = <<x>>
LowestPriority(id) ==
    \A other \in ReadyIds : theme_nodes[other].priority >= theme_nodes[id].priority

\* C15 as stated: right after mark_theme_exhausted(X), with no theme
\* MENTIONED, get_next_candidate_theme() returns the PENDING theme T that
\* depends on X alone, if no PENDING theme whose dependencies are now satisfied
\* has a lower priority number than T.
C15_UnblockedThemeReturned ==
    \A x \in DOMAIN theme_nodes : \A id \in DOMAIN theme_nodes :
        JustExhausted(x) /\ MentionedIds = {} /\ WaitsFor(id, x) /\ LowestPriority(id)
            => Candidate = id

\* C15 amended: ... if no such theme has a lower priority number than T, and
\* none with the same priority number comes before T in insertion order.
C15_UnblockedThemeReturnedFirstOfTies ==
    \A x \in DOMAIN theme_nodes : \A id \in DOMAIN theme_nodes :
        /\ JustExhausted(x) /\ MentionedIds = {} /\ WaitsFor(id, x) /\ LowestPriority(id)
        /\ \A other \in ReadyIds :
              theme_nodes[other].priority = theme_nodes[id].priority
                  => Position(id) <= Position(other)
        => Candidate = id

\* the theme that waited for the theme just marked exhausted is returned,
\* ahead of a ready PENDING theme that comes before it
C15_Witness ==
    /\ MentionedIds = {}
    /\ Candidate # None
    /\ JustExhausted("T1") /\ WaitsFor(Candidate, "T1")
    /\ \E other \in ReadyIds : Position(other) < Position(Candidate)

\* C16: update_event_depth, mark_theme_exhausted, the queries and
\* save_checkpoint leave every theme's exploration_depth as it was.
C16_DepthFrame ==
    [][lastOp'.op \in {"update_event_depth", "mark_theme_exhausted", "calculate_coverage",
                       "get_next_candidate_theme", "get_theme_status", "get_graph_state",
                       "get_pending_theme_nodes", "get_mentioned_theme_nodes",
                       "get_exhausted_theme_nodes", "save_checkpoint"}
        => \A id \in DOMAIN theme_nodes :
              theme_nodes'[id].exploration_depth = theme_nodes[id].exploration_depth]_vars

\* update_event_depth has raised an event's depth above the depth of the
\* theme that lists the event
C16_Witness ==
    /\ lastOp.op = "update_event_depth" /\ lastOp.ret = "True"
    /\ \E id \in DOMAIN theme_nodes :
          /\ lastOp.event_id \in SeqToSet(theme_nodes[id].extracted_events)
          /\ theme_nodes[id].exploration_depth > 0
          /\ event_nodes[lastOp.event_id].depth_level > theme_nodes[id].exploration_depth

SavedThemeIds == DOMAIN checkpoint.themes.data

\* C17: load_checkpoint of a theme record over other ids succeeds, adds no
\* theme, leaves the themes the record does not hold as they were, and gives
\* the themes it holds the saved status, depth and slots_filled.
C17_LoadOverOtherCatalog ==
    [][lastOp'.op = "load_checkpoint" /\ checkpoint.themes.kind = "ok" =>
        /\ lastOp'.ret = "True"
        /\ DOMAIN theme_nodes' = DOMAIN theme_nodes
        /\ \A id \in DOMAIN theme_nodes :
              LET saved == IF id \in SavedThemeIds THEN checkpoint.themes.data[id]
                           ELSE theme_nodes[id]
              IN  /\ theme_nodes'[id].status = saved.status
                  /\ theme_nodes'[id].exploration_depth = saved.exploration_depth
                  /\ theme_nodes'[id].slots_filled = saved.slots_filled]_vars

\* a record holding a theme id that is no theme was loaded: a theme it does
\* not hold is still EXHAUSTED, a theme it holds has the saved slots
C17_Witness ==
    /\ lastOp.op = "load_checkpoint" /\ lastOp.ret = "True"
    /\ SavedThemeIds \ DOMAIN theme_nodes # {}
    /\ \E id \in DOMAIN theme_nodes \ SavedThemeIds : theme_nodes[id].status = EXHAUSTED
    /\ \E id \in DOMAIN theme_nodes \cap SavedThemeIds :
          /\ theme_nodes[id].slots_filled = checkpoint.themes.data[id].slots_filled
          /\ theme_nodes[id].slots_filled # LoadThemes(themes_file)[id].slots_filled

\* C18: save_checkpoint returns True or False, never raises, and leaves the
\* themes, the events and the graph in memory as they were.
C18_SaveNeverRaises ==
    [][lastOp'.op = "save_checkpoint" =>
        /\ lastOp'.ret \in {"True", "False"}
        /\ UNCHANGED <<theme_nodes, event_nodes, graph>>]_vars

\* C19: mark_theme_exhausted on a known theme returns success, leaves the
\* theme EXHAUSTED whatever its status was, sets exhausted_at, and changes no
\* other theme's status and no theme's depth, slots or extracted events.
C19_MarkThemeExhausted ==
    [][\A id \in DOMAIN theme_nodes :
          lastOp'.op = "mark_theme_exhausted" /\ lastOp'.theme_id = id =>
              /\ lastOp'.ret = "True"
              /\ theme_nodes'[id].status = EXHAUSTED
              /\ theme_nodes'[id].exhausted_at # NoTime
              /\ \A other \in DOMAIN theme_nodes \ {id} :
                    theme_nodes'[other].status = theme_nodes[other].status
              /\ \A any \in DOMAIN theme_nodes :
                    /\ theme_nodes'[any].exploration_depth = theme_nodes[any].exploration_depth
                    /\ theme_nodes'[any].slots_filled = theme_nodes[any].slots_filled
                    /\ theme_nodes'[any].extracted_events = theme_nodes[any].extracted_events]_vars

\* a theme that was never MENTIONED has been marked exhausted while another
\* theme is MENTIONED
C19_Witness ==
    /\ lastOp.op = "mark_theme_exhausted" /\ lastOp.ret = "True"
    /\ theme_nodes[lastOp.theme_id].status = EXHAUSTED
    /\ theme_nodes[lastOp.theme_id].first_mentioned_at = NoTime
    /\ theme_nodes[lastOp.theme_id].exhausted_at # NoTime
    /\ MentionedIds # {}

\* C20: mark_mentioned() makes a PENDING theme MENTIONED and records
\* first_mentioned_at, changes nothing on a theme that is MENTIONED or
\* EXHAUSTED, and under mark_mentioned, mark_exhausted and add_event_node a
\* first_mentioned_at once written is never written again.
C20_MarkMentionedIdempotent ==
    [][\A id \in DOMAIN theme_nodes :
          /\ lastOp'.op = "ThemeNode.mark_mentioned" /\ lastOp'.theme_id = id =>
                IF theme_nodes[id].status = PENDING
                THEN /\ theme_nodes'[id].status = MENTIONED
                     /\ theme_nodes'[id].first_mentioned_at # NoTime
                ELSE theme_nodes'[id] = theme_nodes[id]
          /\ theme_nodes[id].first_mentioned_at # NoTime =>
                theme_nodes'[id].first_mentioned_at = theme_nodes[id].first_mentioned_at]_vars

\* mark_mentioned was called on a theme that had been mentioned and then
\* exhausted: it is still EXHAUSTED and holds its first timestamp
C20_Witness ==
    /\ lastOp.op = "ThemeNode.mark_mentioned"
    /\ theme_nodes[lastOp.theme_id].status = EXHAUSTED
    /\ theme_nodes[lastOp.theme_id].first_mentioned_at = Now(NoTime)


Cursor(id) == theme_nodes[id].current_question_index
Questions(id) == theme_nodes[id].seed_questions
CursorInRange ==
    \A id \in DOMAIN theme_nodes : Cursor(id) \in 0..Len(Questions(id))

\* C21: with the cursor at k - 1 < n, get_next_seed_question() returns the k-th
\* question and moves the cursor to k; with the cursor at n it returns none and
\* leaves the cursor at n (no wraparound); it moves no other theme's cursor; the
\* cursor stays within 0..n; has_more_questions() is true exactly while the
\* cursor is below n. Starting from cursor 0, the k-th call thus returns the
\* k-th question and every call after the n-th returns none.
C21_SeedQuestionsInOrder ==
    /\ []CursorInRange
    /\ [][\A id \in DOMAIN theme_nodes :
            /\ lastOp'.op = "ThemeNode.get_next_seed_question" /\ lastOp'.theme_id = id =>
                  /\ IF Cursor(id) < Len(Questions(id))
                     THEN /\ lastOp'.ret = Questions(id)[Cursor(id) + 1]
                          /\ theme_nodes'[id].current_question_index = Cursor(id) + 1
                     ELSE /\ lastOp'.ret = None
                          /\ theme_nodes'[id].current_question_index = Cursor(id)
                  /\ \A other \in DOMAIN theme_nodes \ {id} :
                        theme_nodes'[other].current_question_index = Cursor(other)
            /\ lastOp'.op = "ThemeNode.has_more_questions" /\ lastOp'.theme_id = id =>
                  /\ lastOp'.ret = "True" <=> Cursor(id) < Len(Questions(id))
                  /\ theme_nodes' = theme_nodes]_vars

\* a theme with two questions was asked again after both were given: the call
\* returned none and the cursor is still 2, while a theme with one question
\* has given it
C21_Witness ==
    /\ lastOp.op = "ThemeNode.get_next_seed_question" /\ lastOp.ret = None
    /\ Len(Questions(lastOp.theme_id)) = 2 /\ Cursor(lastOp.theme_id) = 2
    /\ \E id \in DOMAIN theme_nodes : Len(Questions(id)) = 1 /\ Cursor(id) = 1


\* C22: every event's depth_level stays within 0..5 whatever new_depth
\* update_event_depth is given, and after an update_event_depth that succeeds
\* the depth_level in the event's graph node equals the event's depth_level.
C22_EventDepthBounded ==
    /\ [](\A e \in DOMAIN event_nodes : event_nodes[e].depth_level \in 0..MaxEventDepth)
    /\ [][lastOp'.op = "update_event_depth" /\ lastOp'.ret = "True"
            /\ lastOp'.event_id \in DOMAIN graph'.nodes
            => graph'.nodes[lastOp'.event_id].data.depth_level
                  = event_nodes'[lastOp'.event_id].depth_level]_vars


\* the theme set load() returns, and the definitions it is built from
Loaded == LoadThemes(themes_file)
Definitions == ThemeDefinitions(themes_file)
ResolvableIndexes == {i \in 1..Len(Definitions) : Definitions[i].domain \in DomainValues}

\* C23: what load() and reload() return, and what reset() leaves in
\* theme_nodes through load(), holds one theme per definition under a domain
\* that resolves and none for the others; every theme in it is PENDING at depth
\* 0 with completion ratio 0, its declared slots and no others all unfilled,
\* and no extracted events, whatever was done to the themes loaded before.
C23_LoadGivesFreshThemes ==
    lastOp.op \in {"ThemeLoader.load", "ThemeLoader.reload", "reset"} =>
        LET loaded == Loaded
        IN  /\ DOMAIN loaded = {Definitions[i].theme_id : i \in ResolvableIndexes}
            /\ Cardinality(DOMAIN loaded) = Cardinality(ResolvableIndexes)
            /\ \A i \in ResolvableIndexes :
                  LET t == loaded[Definitions[i].theme_id]
                  IN  /\ t.status = PENDING
                      /\ t.exploration_depth = 0
                      /\ GetCompletionRatio(t)[1] = 0 /\ GetCompletionRatio(t)[2] > 0
                      /\ DOMAIN t.slots_filled = SeqToSet(Definitions[i].slots)
                      /\ \A s \in DOMAIN t.slots_filled : ~t.slots_filled[s]
                      /\ t.extracted_events = <<>>
            /\ lastOp.op = "reset" => theme_nodes = loaded

\* reload() was called after a theme of the manager got an event (and with it
\* a depth and the status MENTIONED) and a filled slot, over the catalog with
\* a theme under a domain that does not resolve
C23_Witness ==
    /\ lastOp.op = "ThemeLoader.reload"
    /\ Cardinality(ResolvableIndexes) < Len(Definitions)
    /\ \E id \in DOMAIN theme_nodes :
          /\ theme_nodes[id].status = MENTIONED
          /\ theme_nodes[id].exploration_depth > 0
          /\ theme_nodes[id].extracted_events # <<>>
          /\ \E s \in DOMAIN theme_nodes[id].slots_filled : theme_nodes[id].slots_filled[s]
          /\ \E s \in DOMAIN theme_nodes[id].slots_filled : theme_nodes[id].slots_filled[s]


\* C24: for every theme of the manager, from_dict(to_dict(t)) has the same
\* theme_id, domain, seed_questions, current_question_index, status,
\* exploration_depth, slots_filled, extracted_events, priority, depends_on and
\* timestamps as t.
C24_ThemeDictRoundTrip ==
    \A id \in DOMAIN theme_nodes :
        LET t == theme_nodes[id]
            back == ThemeFromDict(ThemeToDict(t))
        IN  /\ back.theme_id = t.theme_id
            /\ back.domain = t.domain
            /\ back.seed_questions = t.seed_questions
            /\ back.current_question_index = t.current_question_index
            /\ back.status = t.status
            /\ back.exploration_depth = t.exploration_depth
            /\ back.slots_filled = t.slots_filled
            /\ back.extracted_events = t.extracted_events
            /\ back.priority = t.priority
            /\ back.depends_on = t.depends_on
            /\ back.first_mentioned_at = t.first_mentioned_at
            /\ back.exhausted_at = t.exhausted_at


\* C25: in every state of the manager, ThemeLoader.get_next_priority_theme()
\* on the theme set the manager holds returns the theme that
\* get_next_candidate_theme() returns, or both return none.
C25_LoaderPicksAsManager ==
    GetNextPriorityTheme(theme_nodes, Keys) = Candidate


\* the ids of the nodes of a graph store, each with its status
NodeStatuses(g) == {<<id, g.nodes[id].status>> : id \in DOMAIN g.nodes}

\* C26: two managers over the same catalog, one with each backing, given the
\* same calls: every call returns the same on both, their theme_nodes and
\* event_nodes are equal, and their graph stores hold the same nodes with the
\* same status and the same directed edges.
C26_BackingInvisible ==
    /\ twin.ret = lastOp.ret
    /\ twin.theme_nodes = theme_nodes
    /\ twin.event_nodes = event_nodes
    /\ NodeStatuses(twin.graph) = NodeStatuses(graph)
    /\ EdgePairs(twin.graph, ~use_networkx) = EdgePairs(graph, use_networkx)


C28_DepthCountsCallsEventsCountIds ==
    /\ [](\A id \in DOMAIN theme_nodes :
            /\ theme_nodes[id].exploration_depth =
                  IF add_calls[id] < MaxThemeDepth THEN add_calls[id] ELSE MaxThemeDepth
            /\ Len(theme_nodes[id].extracted_events)
                  = Cardinality(SeqToSet(theme_nodes[id].extracted_events))
            /\ Len(theme_nodes[id].extracted_events) <= add_calls[id])
    /\ [][\A id \in DOMAIN theme_nodes :
            /\ lastOp'.op = "add_event_node" =>
                  SeqToSet(theme_nodes'[id].extracted_events) =
                      IF lastOp'.theme_id = id
                      THEN SeqToSet(theme_nodes[id].extracted_events) \cup {lastOp'.event_id}
                      ELSE SeqToSet(theme_nodes[id].extracted_events)
            /\ lastOp'.op = "reset" => theme_nodes'[id].extracted_events = <<>>
            /\ lastOp'.op = "mark_theme_exhausted" =>
                  theme_nodes'[id].extracted_events = theme_nodes[id].extracted_events]_vars

\* six calls added two event ids to one theme: its depth is 5 and it lists
\* two events
C28_Witness ==
    \E id \in DOMAIN theme_nodes :
        /\ add_calls[id] = MaxThemeDepth + 1
        /\ theme_nodes[id].exploration_depth = MaxThemeDepth
        /\ Len(theme_nodes[id].extracted_events) = 2


ExhaustedIds == {id \in DOMAIN theme_nodes : theme_nodes[id].status = EXHAUSTED}
AbsentReturned == lastOp.op = "get_next_candidate_theme" /\ lastOp.ret = None
\* the ids a theme waits for, directly or through other themes
RECURSIVE WaitedFor(_, _)
WaitedFor(id, steps) ==
    IF steps = 0 \/ id \notin DOMAIN theme_nodes THEN {}
    ELSE LET direct == SeqToSet(theme_nodes[id].depends_on)
         IN  direct \cup UNION {WaitedFor(dep, steps - 1) : dep \in direct}
DependenciesWellFormed ==
    \A id \in DOMAIN theme_nodes :
        LET waited == WaitedFor(id, Cardinality(DOMAIN theme_nodes))
        IN  id \notin waited /\ waited \subseteq DOMAIN theme_nodes

\* C29: in the loop of get_next_candidate_theme() and mark_theme_exhausted of
\* the theme returned, with add_event_node calls in between, every mark raises
\* the number of EXHAUSTED themes by one, so there are at most N of them, and
\* none is returned in the end; when none is returned and the dependencies are
\* acyclic and all name themes, every theme is EXHAUSTED; a PENDING theme one
\* of whose dependencies is no theme is never returned.
C29_LoopTerminates ==
    /\ [](AbsentReturned /\ DependenciesWellFormed => ExhaustedIds = DOMAIN theme_nodes)
    /\ [](lastOp.op = "get_next_candidate_theme" /\ lastOp.ret # None =>
            ~ /\ theme_nodes[lastOp.ret].status = PENDING
              /\ \E dep \in SeqToSet(theme_nodes[lastOp.ret].depends_on) :
                    dep \notin DOMAIN theme_nodes)
    /\ [][lastOp'.op = "mark_theme_exhausted" =>
            /\ lastOp'.ret = "True"
            /\ Cardinality({id \in DOMAIN theme_nodes' : theme_nodes'[id].status = EXHAUSTED})
                  = Cardinality(ExhaustedIds) + 1]_vars
    /\ <>AbsentReturned

\* none is returned after three themes were marked exhausted one by one, one
\* of them after it got an event
C29_Witness ==
    /\ AbsentReturned
    /\ Cardinality(ExhaustedIds) = 3
    /\ \E id \in ExhaustedIds : theme_nodes[id].extracted_events # <<>>



SlotNames(id) == DOMAIN theme_nodes[id].slots_filled
\* a theme with two slots or more, none filled, whose depth ratio d/5 is
\* above 1/total
DepthAboveOneSlot(id) ==
    /\ Cardinality(SlotNames(id)) >= 2
    /\ FilledSlots(id) = {}
    /\ RatioLess(<<1, Cardinality(SlotNames(id))>>,
                 <<theme_nodes[id].exploration_depth, MaxThemeDepth>>)
\* update_slot(name, True) has acted on such a theme
SlotJustFilled(id) ==
    /\ lastOp'.op = "ThemeNode.update_slot" /\ lastOp'.theme_id = id
    /\ DepthAboveOneSlot(id)
    /\ FilledSlots(id)' # {}
RatioNeverLoweredByDepth ==
    lastOp'.op \in {"add_event_node", "ThemeNode.increment_depth"} =>
        \A id \in DOMAIN theme_nodes : ~RatioLess(Ratio(id)', Ratio(id))

\* C30 as stated: increment_depth and add_event_node never lower a theme's
\* completion ratio, and update_slot(name, True) on a theme with total >= 2
\* slots, none filled, and depth d with d/5 > 1/total lowers the ratio from
\* min(d/5, 1) to 1/total and lowers the overall coverage.
C30_SlotFillLowersRatioToOneOverTotal ==
    [][/\ RatioNeverLoweredByDepth
       /\ \A id \in DOMAIN theme_nodes : SlotJustFilled(id) =>
             /\ Ratio(id) = DepthRatio(theme_nodes[id].exploration_depth)
             /\ Ratio(id)' = <<1, Cardinality(SlotNames(id))>>
             /\ RatioLess(Ratio(id)', Ratio(id))
             /\ RatioLess(Overall', Overall)]_vars

\* C30 with the slot count taken after the call: the ratio becomes 1/total
\* when the name is a key of slots_filled and 1/(total + 1) when it is not,
\* since update_slot then adds the key; either way the ratio and the overall
\* coverage get lower.
C30_SlotFillLowersRatio ==
    [][/\ RatioNeverLoweredByDepth
       /\ \A id \in DOMAIN theme_nodes : SlotJustFilled(id) =>
             LET total == Cardinality(SlotNames(id))
             IN  /\ Ratio(id) = DepthRatio(theme_nodes[id].exploration_depth)
                 /\ \/ SlotNames(id)' = SlotNames(id) /\ Ratio(id)' = <<1, total>>
                    \/ /\ Cardinality(SlotNames(id)') = total + 1
                       /\ Ratio(id)' = <<1, total + 1>>
                 /\ RatioLess(Ratio(id)', Ratio(id))
                 /\ RatioLess(Overall', Overall)]_vars

\* T1 and T2 were both brought to depth 3 (ratio 3/5, T1 comes first) and the
\* one call left filled one of T2's two slots: T2's ratio is 1/2 and T2 is the
\* MENTIONED theme returned
C30_Witness ==
    /\ calls_left = MaxDepthCalls - 7
    /\ lastOp.op = "ThemeNode.update_slot" /\ lastOp.theme_id = "T2"
    /\ theme_nodes["T1"].status = MENTIONED /\ theme_nodes["T1"].exploration_depth = 3
    /\ theme_nodes["T2"].status = MENTIONED /\ theme_nodes["T2"].exploration_depth = 3
    /\ Cardinality(SlotNames("T2")) = 2 /\ Cardinality(FilledSlots("T2")) = 1
    /\ Ratio("T2") = <<1, 2>>
    /\ Candidate = "T2"
    /\ GetNextCandidateTheme(
          [theme_nodes EXCEPT !["T2"].slots_filled = [s \in SlotNames("T2") |-> FALSE]],
          Keys) = "T1"

====
